---- MODULE Spec2Model ----
(***************************************************************************)
(* Verification model of the octilinear grid-embedding optimizer of loom:  *)
(* the octilinear Hanan base grid (OctiHananGraph), the ILP builder        *)
(* (ILPGridOptimizer::createProblem), the driver (optimize) and the        *)
(* decoder (extractSolution).                                              *)
(*                                                                         *)
(* Grid nodes are triples <<x, y, p>>: p in 0..7 is the port of the sink   *)
(* in cell (x, y) in compass direction p, p = 8 is the sink itself.  Grid  *)
(* edges are pairs <<from, to>> of grid nodes.  Comb nodes and comb edges  *)
(* are indices into the sequences of the input instance.                   *)
(***************************************************************************)
EXTENDS Integers, Sequences, FiniteSets, TLC

VARIABLES inst, pc, gg, drawing, lp, asg, status, stats, lpAlive, calls,
          files, err, sol, tg

vars == <<inst, pc, gg, drawing, lp, asg, status, stats, lpAlive, calls,
          files, err, sol, tg>>

\* ------------------------------------------------------------------------
\* generic helpers
\* ------------------------------------------------------------------------
\* F applied to the value of v, which is computed once
Let(v, F(_)) == CHOOSE r \in {F(x) : x \in {v}} : TRUE

\* the concatenation of Op(sq[lo]), ..., Op(sq[hi]), by halving the range
RECURSIVE FlatMapFrom(_, _, _, _)
FlatMapFrom(Op(_), sq, lo, hi) ==
  IF lo > hi THEN <<>>
  ELSE IF lo = hi THEN Op(sq[lo])
  ELSE CHOOSE r \in {FlatMapFrom(Op, sq, lo, m) \o FlatMapFrom(Op, sq, m + 1, hi) :
                       m \in {(lo + hi) \div 2}} : TRUE

\* the concatenation of Op(sq[1]), Op(sq[2]), ...
FlatMap(Op(_), sq) == Let(sq, LAMBDA s : FlatMapFrom(Op, s, 1, Len(s)))

Range(sq) == {sq[i] : i \in 1..Len(sq)}

IndexOf(sq, x) ==
  Let(x, LAMBDA y :
    Let({i \in 1..Len(sq) : sq[i] = y}, LAMBDA is :
      IF is = {} THEN 0 ELSE CHOOSE i \in is : \A j \in is : i <= j))

Abs(i) == IF i < 0 THEN 0 - i ELSE i

\* C++ integer remainder and quotient (truncation toward zero)
CRem(a, b) == IF a >= 0 THEN a % b ELSE 0 - ((0 - a) % b)
CDiv(a, b) == IF a >= 0 THEN a \div b ELSE 0 - ((0 - a) \div b)

\* ------------------------------------------------------------------------
\* the base grid (OctiHananGraph)
\* ------------------------------------------------------------------------
maxDeg == 8

NoNd == <<>>

\* a line graph without nodes
NoGraph == [nds |-> {}, edgs |-> <<>>]

Snk(c) == <<c[1], c[2], 8>>
Port(c, p) == <<c[1], c[2], p>>
Parent(n) == <<n[1], n[2]>>
isSink(n) == n[3] = 8

\* offsets of port i relative to its sink (writeNd)
PortDX(i) ==
  LET xi == CRem(4 - (i % 8), 4) IN CDiv(xi, Abs(Abs(xi) - 1) + 1)
PortDY(i) ==
  LET yi == CRem(4 - ((i + 2) % 8), 4) IN CDiv(yi, Abs(Abs(yi) - 1) + 1)

\* the four line families of init: a line holds nodes only if an input
\* coordinate lies on it
xyIdx(G, c) == c[1] + (G.H - 1 - c[2])
yxIdx(c) == c[2] + c[1]
xActive(G, x) == \E c \in G.C : c[1] = x
yActive(G, y) == \E c \in G.C : c[2] = y
xyActive(G, i) == \E c \in G.C : xyIdx(G, c) = i
yxActive(G, i) == \E c \in G.C : yxIdx(c) = i

Cells(W, H) == (0..(W - 1)) \X (0..(H - 1))

\* cells that receive a node in the Hanan loop of init
HananCells(G) ==
  {c \in Cells(G.W, G.H) : xActive(G, c[1]) /\ yActive(G, c[2])}

\* cells that receive a node in the diagonal loop of init
DiagCells(G) ==
  {c \in Cells(G.W, G.H) :
     \/ /\ xyActive(G, xyIdx(G, c))
        /\ (yxActive(G, yxIdx(c)) \/ yActive(G, c[2]) \/ xActive(G, c[1]))
     \/ /\ yxActive(G, yxIdx(c))
        /\ (xyActive(G, xyIdx(G, c)) \/ yActive(G, c[2]) \/ xActive(G, c[1]))}

\* cells in the order of a std::set of (x, y) pairs / of the x-outer loops
CellSeq(T, W, H) ==
  SelectSeq([k \in 1..(W * H) |-> <<(k - 1) \div H, (k - 1) % H>>],
            LAMBDA c : c \in T)

\* the grid after init: W, H the extent of the cell grid, C the cells of the
\* input nodes, S the cells holding a sink, nds the sinks in creation order
init(W, H, C) ==
  LET G0 == [W |-> W, H |-> H, C |-> C]
      hn == HananCells(G0) \ C
      dg == DiagCells(G0) \ (C \cup hn)
  IN  [W |-> W, H |-> H, C |-> C, S |-> C \cup hn \cup dg,
       nds |-> CellSeq(C, W, H) \o CellSeq(hn, W, H) \o CellSeq(dg, W, H)]

MinBy(T, k) == CHOOSE s \in T : \A t \in T : s[k] <= t[k]
MaxBy(T, k) == CHOOSE s \in T : \A t \in T : s[k] >= t[k]

\* the node connected to sink cell c in direction i by connectNodes: the next
\* node on the (active) line through c
neigh(G, cl, i) ==
  Let(cl, LAMBDA c :
  LET sameCol == {s \in G.S : s[1] = c[1]}
      sameRow == {s \in G.S : s[2] = c[2]}
      sameXy  == {s \in G.S : xyIdx(G, s) = xyIdx(G, c)}
      sameYx  == {s \in G.S : yxIdx(s) = yxIdx(c)}
      up(T, k) == LET U == {s \in T : s[k] > c[k]}
                  IN IF U = {} THEN NoNd ELSE MinBy(U, k)
      dn(T, k) == LET U == {s \in T : s[k] < c[k]}
                  IN IF U = {} THEN NoNd ELSE MaxBy(U, k)
  IN CASE i = 0 -> IF xActive(G, c[1]) THEN up(sameCol, 2) ELSE NoNd
       [] i = 4 -> IF xActive(G, c[1]) THEN dn(sameCol, 2) ELSE NoNd
       [] i = 2 -> IF yActive(G, c[2]) THEN up(sameRow, 1) ELSE NoNd
       [] i = 6 -> IF yActive(G, c[2]) THEN dn(sameRow, 1) ELSE NoNd
       [] i = 1 -> IF xyActive(G, xyIdx(G, c)) THEN up(sameXy, 2) ELSE NoNd
       [] i = 5 -> IF xyActive(G, xyIdx(G, c)) THEN dn(sameXy, 2) ELSE NoNd
       [] i = 3 -> IF yxActive(G, yxIdx(c)) THEN up(sameYx, 1) ELSE NoNd
       [] i = 7 -> IF yxActive(G, yxIdx(c)) THEN dn(sameYx, 1) ELSE NoNd
       [] OTHER -> NoNd)

\* ports without a major edge are pruned
getPort(G, c, p) == IF neigh(G, c, p) # NoNd THEN Port(c, p) ELSE NoNd

Ports(G, c) == SelectSeq([k \in 1..maxDeg |-> k - 1],
                         LAMBDA p : getPort(G, c, p) # NoNd)

\* degree of a sink: its sink edges, one per remaining port
getDeg(G, c) == Len(Ports(G, c))

getDir(G, a, b) ==
  IF \E p \in 0..(maxDeg - 1) : neigh(G, a, p) = b
  THEN CHOOSE p \in 0..(maxDeg - 1) : neigh(G, a, p) = b
  ELSE maxDeg

\* the major edge from sink cell a to sink cell b, or NoNd
getNEdg(G, a, b) ==
  IF a = NoNd \/ b = NoNd THEN NoNd
  ELSE LET dir == getDir(G, a, b)
       IN IF dir < maxDeg
          THEN <<Port(a, dir), Port(b, (dir + maxDeg \div 2) % maxDeg)>>
          ELSE NoNd

\* all grid nodes in the order of _nds: every sink followed by its ports
getNds(G) ==
  FlatMap(LAMBDA c : <<Snk(c)>> \o FlatMap(LAMBDA p : <<Port(c, p)>>, Ports(G, c)),
          G.nds)

Sinks(G) == [k \in 1..Len(G.nds) |-> Snk(G.nds[k])]

isSecondary(e) == Parent(e[1]) = Parent(e[2])
isBend(e) == isSecondary(e) /\ ~isSink(e[1]) /\ ~isSink(e[2])
isSinkEdg(e) == isSecondary(e) /\ (isSink(e[1]) \/ isSink(e[2]))

\* out-edges of a grid node in adjacency-list order
getAdjListOut(G, nd) ==
  Let(nd, LAMBDA n : Let(Ports(G, Parent(n)), LAMBDA ps :
    IF isSink(n)
    THEN FlatMap(LAMBDA q : <<<<n, Port(Parent(n), q)>>>>, ps)
    ELSE <<<<n, Snk(Parent(n))>>>>
         \o FlatMap(LAMBDA q : IF q = n[3] THEN <<>>
                                ELSE <<<<n, Port(Parent(n), q)>>>>, ps)
         \o <<<<n, Port(neigh(G, Parent(n), n[3]),
                       (n[3] + maxDeg \div 2) % maxDeg)>>>>))

\* in-edges of a grid node
getAdjListIn(G, nd) ==
  Let(nd, LAMBDA n : Let(Ports(G, Parent(n)), LAMBDA ps :
    IF isSink(n)
    THEN FlatMap(LAMBDA q : <<<<Port(Parent(n), q), n>>>>, ps)
    ELSE <<<<Snk(Parent(n)), n>>>>
         \o FlatMap(LAMBDA q : IF q = n[3] THEN <<>>
                                ELSE <<<<Port(Parent(n), q), n>>>>, ps)
         \o <<<<Port(neigh(G, Parent(n), n[3]),
                     (n[3] + maxDeg \div 2) % maxDeg), n>>>>))

\* a bend edge between ports i < j written with cost INF by writeNd
bendInf(G, c, i, j) ==
  \/ c[1] = 0 /\ i \in {5, 6, 7}
  \/ c[2] = 0 /\ i \in {0, 7, 1}
  \/ c[1] = G.W - 1 /\ i \in {1, 2, 3}
  \/ c[2] = G.H - 1 /\ i \in {3, 4, 5}

Min(a, b) == IF a <= b THEN a ELSE b
Max(a, b) == IF a >= b THEN a ELSE b

\* registrations of init's "diagonal intersections" loop, in order: for the
\* consecutive nodes ndA, ndB of every xy line the crossing yx edge found by
\* upper_bound on the yx line with index x + y + 1
crossRegs(G) ==
  LET xyOrd == SelectSeq(
        FlatMap(LAMBDA i : SelectSeq(
                  [k \in 1..G.H |-> <<i - (G.H - 1) + (k - 1), k - 1>>],
                  LAMBDA c : c \in G.S), [k \in 1..(G.W + G.H) |-> k - 1]),
        LAMBDA a : neigh(G, a, 1) # NoNd)
      reg(ndA) ==
        LET ndB == neigh(G, ndA, 1)
            yi == ndA[1] + ndA[2] + 1
            L == {s \in G.S : yxIdx(s) = yi}
            U == {s \in L : s[1] > ndA[1]}
            D == {s \in L : s[1] <= ndA[1]}
        IN IF yi < G.W + G.H /\ yxActive(G, yi) /\ U # {} /\ D # {}
           THEN LET oNdA == MaxBy(D, 1)
                    oNdB == MinBy(U, 1)
                IN <<[ea |-> getNEdg(G, ndA, ndB), eb |-> getNEdg(G, ndB, ndA),
                      fa |-> getNEdg(G, oNdA, oNdB),
                      fb |-> getNEdg(G, oNdB, oNdA)]>>
           ELSE <<>>
  IN FlatMap(reg, xyOrd)

\* _edgePairs[e]: the crossing pairs registered for grid edge e
edgePairs(G, e) ==
  FlatMap(LAMBDA r :
            (IF e = r.ea \/ e = r.eb THEN <<<<r.fa, r.fb>>>> ELSE <<>>)
            \o (IF e = r.fa \/ e = r.fb THEN <<<<r.ea, r.eb>>>> ELSE <<>>),
          crossRegs(G))

getCrossEdgPairs(G) ==
  FlatMap(LAMBDA c :
            LET eOr == getNEdg(G, c, neigh(G, c, 3))
                fOr == getNEdg(G, neigh(G, c, 3), c)
            IN IF eOr = NoNd THEN <<>>
               ELSE LET pairs == edgePairs(G, eOr)
                    IN [k \in 1..Len(pairs) |-> <<<<eOr, fOr>>, pairs[k]>>],
          G.nds)

\* ------------------------------------------------------------------------
\* the combinatorial graph (input)
\* ------------------------------------------------------------------------
\* an instance I holds: W, H (grid extent), pos (cell of every comb node; the
\* node's geometry is the centre of that cell), edgs (<<from, to>> per comb
\* edge), ord (per comb node the circular ordering of its edges), maxGrDist,
\* noSolve, timeLim, heur (a heuristic drawing is present on entry)
cgNds(I) == [k \in 1..Len(I.pos) |-> k]

getFrom(I, f) == I.edgs[f][1]
getTo(I, f) == I.edgs[f][2]

\* adjacency list of comb node v (undirected: every incident edge)
getAdjList(I, v) ==
  SelectSeq([k \in 1..Len(I.edgs) |-> k],
            LAMBDA f : getFrom(I, f) = v \/ getTo(I, f) = v)

combDeg(I, v) == Len(getAdjList(I, v))

\* the comb edges in the order of the loops
\* "for nd: for edg in adj list: if (edg->getFrom() != nd) continue"
combEdgs(I) ==
  FlatMap(LAMBDA v : SelectSeq(getAdjList(I, v), LAMBDA f : getFrom(I, f) = v),
          cgNds(I))

\* squared distance in cells between comb node v and sink cell c
dist2(I, v, c) ==
  (I.pos[v][1] - c[1]) * (I.pos[v][1] - c[1])
  + (I.pos[v][2] - c[2]) * (I.pos[v][2] - c[2])

\* ------------------------------------------------------------------------
\* ILPGridOptimizer::createProblem
\* ------------------------------------------------------------------------
getStatPosVar(n, nd) == <<"sp", n, nd>>
getEdgUseVar(e, f) == <<"edg", e[1], e[2], f>>
dirVar(nd, f) == <<"d", nd, f>>
vulnVar(nd, i) == <<"vuln", nd, i>>

\* skipCand without the distance threshold
skipCandNoDist(I, G, v, c) == getDeg(G, c) < combDeg(I, v)

\* sink cell c is skipped as a candidate of comb node v
skipCand(I, G, v, c) ==
  \/ getDeg(G, c) < combDeg(I, v)
  \/ dist2(I, v, c) >= I.maxGrDist * I.maxGrDist

\* cands[v]: the candidate sinks of comb node v
cands(I, G, v) ==
  IF combDeg(I, v) = 0 THEN {}
  ELSE {c \in G.S : ~skipCand(I, G, v, c)}

\* sinks whose sink edges were opened by openSinkFr / openSinkTo
openedSinks(I, G) == UNION {cands(I, G, v) : v \in 1..Len(I.pos)}

\* cost() >= SOFT_INF for grid edge e once the candidates are opened
costInf(I, G, e) ==
  IF isSinkEdg(e) THEN Parent(e[1]) \notin openedSinks(I, G)
  ELSE IF isBend(e)
       THEN bendInf(G, Parent(e[1]), Min(e[1][3], e[2][3]), Max(e[1][3], e[2][3]))
       ELSE FALSE

nonInfDeg(I, G, n) ==
  Len(SelectSeq(getAdjListOut(G, n), LAMBDA e : ~costInf(I, G, e)))

BinCol(name) == [name |-> name, lo |-> 0, hi |-> 1]
IntCol(name, lo, hi) == [name |-> name, lo |-> lo, hi |-> hi]

\* columns sp(g, v), lines 113-152
spCols(I, G) ==
  FlatMap(LAMBDA nd :
            IF combDeg(I, nd) = 0 THEN <<>>
            ELSE FlatMap(LAMBDA c : IF c \in cands(I, G, nd)
                                    THEN <<BinCol(getStatPosVar(Snk(c), nd))>>
                                    ELSE <<>>, G.nds),
          cgNds(I))

\* grid edge e gets a column for comb edge f, lines 162-177
edgHasCol(I, G, e, f) ==
  /\ ~costInf(I, G, e)
  /\ isSink(e[1]) => Parent(e[1]) \in cands(I, G, getFrom(I, f))
  /\ isSink(e[2]) => Parent(e[2]) \in cands(I, G, getTo(I, f))

\* columns edg(e, f), lines 156-193
edgCols(I, G) ==
  FlatMap(LAMBDA f :
            FlatMap(LAMBDA n :
                      FlatMap(LAMBDA e : IF edgHasCol(I, G, e, f)
                                         THEN <<BinCol(getEdgUseVar(e, f))>>
                                         ELSE <<>>,
                              getAdjListOut(G, n)),
                    getNds(G)),
          combEdgs(I))

\* columns d(v, f), lines 415-421
dCols(I) ==
  FlatMap(LAMBDA nd :
            IF combDeg(I, nd) < 2 THEN <<>>
            ELSE [k \in 1..combDeg(I, nd) |->
                    IntCol(dirVar(nd, getAdjList(I, nd)[k]), 0, maxDeg - 1)],
          cgNds(I))

\* columns vuln(v, i), lines 477-482
vulnCols(I) ==
  FlatMap(LAMBDA nd :
            IF combDeg(I, nd) < 3 THEN <<>>
            ELSE [k \in 1..combDeg(I, nd) |-> BinCol(vulnVar(nd, k - 1))],
          cgNds(I))

\* the bend penalties of the grid, getCosts(): one per angle between two comb
\* edges at a station, from 180 degrees (four steps of 45 degrees) down to 45
\* degrees (one step)
Pen(steps) == <<"pen", steps * 45>>
getCosts == <<Pen(4), Pen(3), Pen(2), Pen(1)>>

\* the number of lines that comb edges a and b share, lines 540-547
sharedLines(I, a, b) == Cardinality(I.lines[a] \cap I.lines[b])

\* the pairs <<nd, edgA, edgB>> of the loops of lines 530-549: two edges of
\* the adjacency list of nd, in list order, with a shared line
anglePairs(I) ==
  FlatMap(LAMBDA nd :
    Let(getAdjList(I, nd), LAMBDA adj :
      FlatMap(LAMBDA i :
        FlatMap(LAMBDA j :
                  IF j > i /\ sharedLines(I, adj[i], adj[j]) > 0
                  THEN << <<nd, adj[i], adj[j]>> >> ELSE <<>>,
                [j \in 1..Len(adj) |-> j]),
        [i \in 1..Len(adj) |-> i])),
    cgNds(I))

negVar(a, b) == <<"negdist", a, b>>

\* bucketIdx folding back to the first penalty
bucketIdxShifted(k, M) == IF k >= M THEN k - M ELSE M - 1 - k

\* pp of lines 599-602: the index into pens of bucket k (0-based)
bucketIdx(k, M) == IF k >= M THEN k + 1 - M ELSE M - 1 - k

\* the name of bucket k: "d<pp>(a,b)", or "d<pp>'(a,b)" when k >= M
bucketVar(k, M, a, b) == <<"dk", bucketIdx(k, M), k >= M, a, b>>

\* a binary column with objective coefficient obj
PenCol(name, obj) == [name |-> name, lo |-> 0, hi |-> 1, obj |-> obj]

\* columns negdist(a, b) and the buckets of every pair, lines 551-554, 597-609
angCols(I) ==
  FlatMap(LAMBDA pr :
            <<BinCol(negVar(pr[2], pr[3]))>>
            \o [k \in 1..(maxDeg - 1) |->
                  PenCol(bucketVar(k - 1, Len(getCosts), pr[2], pr[3]),
                         getCosts[bucketIdx(k - 1, Len(getCosts)) + 1])],
          anglePairs(I))

problemCols(I, G) ==
  spCols(I, G) \o edgCols(I, G) \o dCols(I) \o vulnCols(I) \o angCols(I)

\* name -> column index, 0 when there is no such column (the code's -1)
getVarByName(nm, name) == IndexOf(nm, name)

\* addColToRow(row, col, coef) guarded by "if (col > -1)"
Term(nm, name, coef) ==
  Let(getVarByName(nm, name), LAMBDA i : IF i > 0 THEN <<<<i, coef>>>> ELSE <<>>)

Row(name, rhs, sense, coefs) ==
  [name |-> name, rhs |-> rhs, sense |-> sense, coefs |-> coefs]

\* oneassRows adding a row only for a comb node with candidates
oneassRowsNonEmpty(I, G, nm) ==
  FlatMap(LAMBDA nd :
            IF combDeg(I, nd) = 0 \/ cands(I, G, nd) = {} THEN <<>>
            ELSE <<Row(<<"oneass", nd>>, 1, "FIX",
                       FlatMap(LAMBDA c :
                                 IF c \in cands(I, G, nd)
                                 THEN Term(nm, getStatPosVar(Snk(c), nd), 1)
                                 ELSE <<>>, G.nds))>>,
          cgNds(I))

\* rows oneass(v), lines 113-152
oneassRows(I, G, nm) ==
  FlatMap(LAMBDA nd :
            IF combDeg(I, nd) = 0 THEN <<>>
            ELSE <<Row(<<"oneass", nd>>, 1, "FIX",
                       FlatMap(LAMBDA c :
                                 IF c \in cands(I, G, nd)
                                 THEN Term(nm, getStatPosVar(Snk(c), nd), 1)
                                 ELSE <<>>, G.nds))>>,
          cgNds(I))

Rev(e) == <<e[2], e[1]>>

\* the major edges in the order in which the ue loop meets them
majorEdgs(G) ==
  FlatMap(LAMBDA n : SelectSeq(getAdjListOut(G, n), LAMBDA e : ~isSecondary(e)),
          getNds(G))

\* ueCoefs without the columns of the reverse edge
ueCoefsOneDir(I, G, nm, e, f) ==
  FlatMap(LAMBDA edg :
            IF costInf(I, G, e) THEN <<>> ELSE Term(nm, getEdgUseVar(e, edg), 1),
          combEdgs(I))

\* the columns of the ue row of major edge e with reverse f, lines 212-225
ueCoefs(I, G, nm, e, f) ==
  FlatMap(LAMBDA edg :
            IF costInf(I, G, e) THEN <<>>
            ELSE Term(nm, getEdgUseVar(e, edg), 1)
                 \o Term(nm, getEdgUseVar(f, edg), 1),
          combEdgs(I))

\* rows ue(e), lines 197-227
ueRows(I, G, nm) ==
  LET mj == majorEdgs(G)
  IN FlatMap(LAMBDA e :
               IF IndexOf(mj, e) > IndexOf(mj, Rev(e)) THEN <<>>
               ELSE <<Row(<<"ue", e[1], e[2]>>, 1, "UP",
                          ueCoefs(I, G, nm, e, Rev(e)))>>,
             mj)

\* coefficient of an outgoing edge in the as row of grid node n
outCost(n) == IF isSink(n) THEN 2 ELSE 1

\* the columns of the as row of grid node n and comb edge edg, lines 262-286
asCoefs(I, G, nm, n, edg) ==
  (IF isSink(n)
   THEN Term(nm, getStatPosVar(n, getFrom(I, edg)), 0 - 2)
        \o Term(nm, getStatPosVar(n, getTo(I, edg)), 1)
   ELSE <<>>)
  \o FlatMap(LAMBDA e : Term(nm, getEdgUseVar(e, edg), 0 - 1),
             getAdjListIn(G, n))
  \o FlatMap(LAMBDA e : Term(nm, getEdgUseVar(e, edg), outCost(n)),
             getAdjListOut(G, n))

\* asRows without the test of nonInfDeg
asRowsAll(I, G, nm) ==
  FlatMap(LAMBDA n :
            FlatMap(LAMBDA edg :
                      <<Row(<<"as", n, edg>>, 0, "UP", asCoefs(I, G, nm, n, edg))>>,
                    combEdgs(I)),
          getNds(G))

\* asRows for the sinks only
asRowsSinksOnly(I, G, nm) ==
  FlatMap(LAMBDA n :
            IF nonInfDeg(I, G, n) = 0 THEN <<>>
            ELSE FlatMap(LAMBDA edg :
                           <<Row(<<"as", n, edg>>, 0, "UP",
                                 asCoefs(I, G, nm, n, edg))>>,
                         combEdgs(I)),
          Sinks(G))

\* rows as(n, f), lines 231-289
asRows(I, G, nm) ==
  FlatMap(LAMBDA n :
            IF nonInfDeg(I, G, n) = 0 THEN <<>>
            ELSE FlatMap(LAMBDA edg :
                           <<Row(<<"as", n, edg>>, 0, "UP",
                                 asCoefs(I, G, nm, n, edg))>>,
                         combEdgs(I)),
          getNds(G))

\* the columns of the ss row of sink n and comb edge e, lines 309-336
ssCoefs(I, G, nm, n, e) ==
  (IF Parent(n) \in cands(I, G, getTo(I, e))
   THEN Term(nm, getStatPosVar(n, getTo(I, e)), 0 - 1) ELSE <<>>)
  \o (IF Parent(n) \in cands(I, G, getFrom(I, e))
      THEN Term(nm, getStatPosVar(n, getFrom(I, e)), 0 - 1) ELSE <<>>)
  \o FlatMap(LAMBDA p :
               Term(nm, getEdgUseVar(<<Port(Parent(n), p), n>>, e), 1)
               \o Term(nm, getEdgUseVar(<<n, Port(Parent(n), p)>>, e), 1),
             Ports(G, Parent(n)))

\* rows ss(n, f), lines 297-339
ssRows(I, G, nm) ==
  FlatMap(LAMBDA n :
            FlatMap(LAMBDA e : <<Row(<<"ss", n, e>>, 0, "FIX",
                                     ssCoefs(I, G, nm, n, e))>>,
                    combEdgs(I)),
          Sinks(G))

\* iuCoefs without the station columns
iuCoefsBendsOnly(I, G, nm, n) ==
  FlatMap(LAMBDA pf :
    FlatMap(LAMBDA pt :
      IF pf = pt THEN <<>>
      ELSE FlatMap(LAMBDA edg :
             Term(nm, getEdgUseVar(<<Port(Parent(n), pf),
                                     Port(Parent(n), pt)>>, edg), 1),
             combEdgs(I)),
      Ports(G, Parent(n))),
    Ports(G, Parent(n)))

\* the columns of the iu row of sink n, lines 354-378
iuCoefs(I, G, nm, n) ==
  FlatMap(LAMBDA nd : Term(nm, getStatPosVar(n, nd), 1), cgNds(I))
  \o FlatMap(LAMBDA pf :
       FlatMap(LAMBDA pt :
         IF pf = pt THEN <<>>
         ELSE FlatMap(LAMBDA edg :
                Term(nm, getEdgUseVar(<<Port(Parent(n), pf),
                                        Port(Parent(n), pt)>>, edg), 1),
                combEdgs(I)),
         Ports(G, Parent(n))),
       Ports(G, Parent(n)))

\* rows iu(n), lines 343-379
iuRows(I, G, nm) ==
  FlatMap(LAMBDA n : <<Row(<<"iu", n>>, 1, "UP", iuCoefs(I, G, nm, n))>>,
          Sinks(G))

\* ncCoefs without the columns of the second edge of the crossing
ncCoefsFirstOnly(I, nm, edgPair) ==
  FlatMap(LAMBDA edg :
            Term(nm, getEdgUseVar(edgPair[1][1], edg), 1)
            \o Term(nm, getEdgUseVar(edgPair[1][2], edg), 1),
          combEdgs(I))

\* the columns of the nc row of one crossing pair, lines 392-408
ncCoefs(I, nm, edgPair) ==
  FlatMap(LAMBDA edg :
            Term(nm, getEdgUseVar(edgPair[1][1], edg), 1)
            \o Term(nm, getEdgUseVar(edgPair[1][2], edg), 1)
            \o Term(nm, getEdgUseVar(edgPair[2][1], edg), 1)
            \o Term(nm, getEdgUseVar(edgPair[2][2], edg), 1),
          combEdgs(I))

\* rows nc(k), lines 383-409
ncRows(I, G, nm) ==
  LET prs == getCrossEdgPairs(G)
  IN [k \in 1..Len(prs) |-> Row(<<"nc", k - 1>>, 1, "UP", ncCoefs(I, nm, prs[k]))]

\* dcCoefs with the port index counted from 1
dcCoefsFromOne(I, G, nm, nd, edg) ==
  Term(nm, dirVar(nd, edg), 0 - 1)
  \o FlatMap(LAMBDA n :
       IF getVarByName(nm, getStatPosVar(n, nd)) = 0 THEN <<>>
       ELSE FlatMap(LAMBDA i :
              IF i = 0 THEN <<>>
              ELSE IF getFrom(I, edg) = nd
                   THEN Term(nm, getEdgUseVar(<<n, Port(Parent(n), i)>>, edg), i + 1)
                   ELSE Term(nm, getEdgUseVar(<<Port(Parent(n), i), n>>, edg), i + 1),
              Ports(G, Parent(n))),
       Sinks(G))

\* the columns of the dc row of comb node nd and comb edge edg, lines 428-457
dcCoefs(I, G, nm, nd, edg) ==
  Term(nm, dirVar(nd, edg), 0 - 1)
  \o FlatMap(LAMBDA n :
       IF getVarByName(nm, getStatPosVar(n, nd)) = 0 THEN <<>>
       ELSE FlatMap(LAMBDA i :
              IF i = 0 THEN <<>>
              ELSE IF getFrom(I, edg) = nd
                   THEN Term(nm, getEdgUseVar(<<n, Port(Parent(n), i)>>, edg), i)
                   ELSE Term(nm, getEdgUseVar(<<Port(Parent(n), i), n>>, edg), i),
              Ports(G, Parent(n))),
       Sinks(G))

\* rows dc(v, f), lines 415-459
dcRows(I, G, nm) ==
  FlatMap(LAMBDA nd :
            IF combDeg(I, nd) < 2 THEN <<>>
            ELSE FlatMap(LAMBDA edg : <<Row(<<"dc", nd, edg>>, 0, "FIX",
                                            dcCoefs(I, G, nm, nd, edg))>>,
                         getAdjList(I, nd)),
          cgNds(I))

\* prevInOrder taking the cyclic successor instead
prevInOrderNext(order, i) ==
  IF i + 1 = Len(order) THEN order[1] ELSE order[i + 2]

\* the edge compared with order[i] in slot i: its cyclic predecessor
prevInOrder(order, i) == IF i = 0 THEN order[Len(order)] ELSE order[i]

\* the oc row of slot i (0-based) of comb node nd, lines 488-521
ocRow(nm, nd, order, i) ==
  LET edgA == prevInOrder(order, i)
      edgB == order[i + 1]
  IN Row(<<"oc", nd, i>>, 1, "LO",
         Term(nm, dirVar(nd, edgB), 1)
         \o Term(nm, dirVar(nd, edgA), 0 - 1)
         \o Term(nm, vulnVar(nd, i), maxDeg))

\* rows vc(v) and oc(v, i), lines 463-522
vcRows(I, nm) ==
  FlatMap(LAMBDA nd :
            IF combDeg(I, nd) < 3 THEN <<>>
            ELSE <<Row(<<"vc", nd>>, 1, "FIX",
                       FlatMap(LAMBDA k : Term(nm, vulnVar(nd, k - 1), 1),
                               [k \in 1..combDeg(I, nd) |-> k]))>>
                 \o [k \in 1..Len(I.ord[nd]) |-> ocRow(nm, nd, I.ord[nd], k - 1)],
          cgNds(I))

\* the columns of the rows nc(a,b)lo and nc(a,b)up, lines 568-579
negCoefs(nm, nd, a, b) ==
  Term(nm, dirVar(nd, a), 1) \o Term(nm, dirVar(nd, b), 0 - 1)
  \o Term(nm, negVar(a, b), maxDeg)

\* bucketCoefs counting the buckets from 0
bucketCoefsFromZero(nm, a, b, c) ==
  FlatMap(LAMBDA k : Term(nm, bucketVar(k - 1, Len(getCosts), a, b),
                          IF c = 1 THEN 1 ELSE c * (k - 1)),
          [k \in 1..(maxDeg - 1) |-> k])

\* the bucket columns of a row, lines 597-613: coefficient -(k + 1) in the ac
\* row (c = -1) and 1 in the asc row (c = 1)
bucketCoefs(nm, a, b, c) ==
  FlatMap(LAMBDA k : Term(nm, bucketVar(k - 1, Len(getCosts), a, b),
                          IF c = 1 THEN 1 ELSE c * k),
          [k \in 1..(maxDeg - 1) |-> k])

\* rows nc(a,b)lo, nc(a,b)up, ac(a,b) and asc(a,b), lines 556-613
angRows(I, nm) ==
  FlatMap(LAMBDA pr :
            <<Row(<<"nc", pr[2], pr[3], "lo">>, 0, "LO",
                  negCoefs(nm, pr[1], pr[2], pr[3])),
              Row(<<"nc", pr[2], pr[3], "up">>, maxDeg - 1, "UP",
                  negCoefs(nm, pr[1], pr[2], pr[3])),
              Row(<<"ac", pr[2], pr[3]>>, 0, "FIX",
                  negCoefs(nm, pr[1], pr[2], pr[3])
                  \o bucketCoefs(nm, pr[2], pr[3], 0 - 1)),
              Row(<<"asc", pr[2], pr[3]>>, 1, "UP",
                  bucketCoefs(nm, pr[2], pr[3], 1))>>,
          anglePairs(I))

\* the rows of the problem
problemRows(I, G, nm) ==
  oneassRows(I, G, nm) \o ueRows(I, G, nm) \o asRows(I, G, nm)
  \o ssRows(I, G, nm) \o iuRows(I, G, nm) \o ncRows(I, G, nm)
  \o dcRows(I, G, nm) \o vcRows(I, nm) \o angRows(I, nm)

\* the solver handle returned by createProblem: columns, the name of every
\* column, rows, and for every column the rows it occurs in
createProblem(I, G) ==
  Let(problemCols(I, G), LAMBDA cols :
    Let([k \in 1..Len(cols) |-> cols[k].name], LAMBDA nm :
      Let(problemRows(I, G, nm), LAMBDA rows :
        [cols |-> cols, nm |-> nm, rows |-> rows,
         rowsOf |-> [c \in 1..Len(cols) |->
                       {r \in 1..Len(rows) :
                          \E t \in 1..Len(rows[r].coefs) : rows[r].coefs[t][1] = c}]])))

\* ------------------------------------------------------------------------
\* the solver behind the facade: solve() answers with any assignment that
\* satisfies every row, found by branching on the columns in order and
\* cutting a branch as soon as a row cannot be satisfied any more
\* ------------------------------------------------------------------------
\* smallest (upper = FALSE) or largest (upper = TRUE) value the terms
\* lo..hi of a row can take when the first Len(a) columns are fixed to a
RECURSIVE RowBound(_, _, _, _, _, _)
RowBound(cols, terms, a, upper, lo, hi) ==
  IF lo > hi THEN 0
  ELSE IF lo = hi
    THEN LET c == terms[lo][1]
             coef == terms[lo][2]
         IN coef * (IF c <= Len(a) THEN a[c]
                    ELSE IF (coef >= 0) = upper THEN cols[c].hi ELSE cols[c].lo)
    ELSE RowBound(cols, terms, a, upper, lo, (lo + hi) \div 2)
         + RowBound(cols, terms, a, upper, (lo + hi) \div 2 + 1, hi)

\* row r can still be satisfied when the first Len(a) columns are fixed to a
RowPossible(cols, r, a) ==
  /\ r.sense \in {"UP", "FIX"} =>
       RowBound(cols, r.coefs, a, FALSE, 1, Len(r.coefs)) <= r.rhs
  /\ r.sense \in {"LO", "FIX"} =>
       RowBound(cols, r.coefs, a, TRUE, 1, Len(r.coefs)) >= r.rhs

\* the full assignment a satisfies every row
Satisfies(P, a) ==
  /\ Len(a) = Len(P.cols)
  /\ \A r \in 1..Len(P.rows) : RowPossible(P.cols, P.rows[r], a)

\* no row is unsatisfiable from the start
RootPossible(P) ==
  \A r \in 1..Len(P.rows) : RowPossible(P.cols, P.rows[r], <<>>)

\* value v may be given to the next column after a
CanBranch(P, a, v) ==
  /\ Len(a) < Len(P.cols)
  /\ Len(a) = 0 => RootPossible(P)
  /\ v \in P.cols[Len(a) + 1].lo .. P.cols[Len(a) + 1].hi
  /\ \A b \in {Append(a, v)} : \A r \in P.rowsOf[Len(a) + 1] :
       RowPossible(P.cols, P.rows[r], b)

\* the assignments of S, each with every value its next column may be given
Extend(P, S) ==
  UNION {IF Len(a) = Len(P.cols) THEN {a}
         ELSE {Append(a, v) :
                 v \in {w \in P.cols[Len(a) + 1].lo .. P.cols[Len(a) + 1].hi :
                          CanBranch(P, a, w)}} : a \in S}

\* some satisfying assignment extends a; the search fixes four columns at a
\* time
RECURSIVE HasSolution(_, _)
HasSolution(P, a) ==
  IF Len(a) = Len(P.cols) THEN TRUE
  ELSE \E b \in Extend(P, Extend(P, Extend(P, Extend(P, {a})))) :
         HasSolution(P, b)

Feasible(P) == RootPossible(P) /\ HasSolution(P, <<>>)

\* getVarVal by name: 0 for a name without column
VarVal(P, a, name) ==
  Let(getVarByName(P.nm, name), LAMBDA i : IF i = 0 THEN 0 ELSE a[i])

\* ------------------------------------------------------------------------
\* ILPGridOptimizer::extractSolution
\* ------------------------------------------------------------------------
\* gridEdgs[edg]: the grid edges whose column for comb edge f has value 1
gridEdgs(P, a, G, f) ==
  {e \in UNION {Range(getAdjListOut(G, n)) : n \in Range(getNds(G))} :
     VarVal(P, a, getEdgUseVar(e, f)) = 1}

\* gridNds[nd]: the last sink in node order whose sp column for nd is 1
gridNds(P, a, G, nd) ==
  LET hosts == SelectSeq(Sinks(G),
                         LAMBDA n : VarVal(P, a, getStatPosVar(n, nd)) = 1)
  IN IF hosts = <<>> THEN NoNd ELSE hosts[Len(hosts)]

\* the while loop of lines 711-722 with i edges consumed so far; acc is the
\* edges vector, filled from its back
RECURSIVE walk(_, _, _, _, _, _)
walk(G, used, curNode, grEnd, i, acc) ==
  IF curNode = grEnd
  THEN [res |-> IF i = Cardinality(used) THEN "ok" ELSE "assert", edges |-> acc]
  ELSE Let(SelectSeq(getAdjListOut(G, curNode),
             LAMBDA adj : (acc = <<>> \/ adj # Head(acc)) /\ adj \in used),
           LAMBDA adjs :
             IF adjs = <<>> THEN [res |-> "hang", edges |-> acc]
             ELSE IF Cardinality(used) < i + 1 THEN [res |-> "assert", edges |-> acc]
             ELSE CHOOSE w \in {walk(G, used, nxt, grEnd, j, nacc) :
                                  nxt \in {adjs[1][2]}, j \in {i + 1},
                                  nacc \in {<<adjs[1]>> \o acc}} : TRUE)

\* Drawing::draw keeps the edges that are not secondary
draw(d, ce, ges) ==
  [d EXCEPT ![ce] = d[ce] \o SelectSeq(ges, LAMBDA ge : ~isSecondary(ge))]

\* the "draw solution" loop over the comb edges fs, lines 689-735
RECURSIVE drawSolution(_, _, _, _, _, _)
drawSolution(I, P, a, G, fs, d) ==
  IF fs = <<>> THEN [res |-> "ok", d |-> d]
  ELSE CHOOSE r \in
         {IF grStart = NoNd \/ grEnd = NoNd THEN [res |-> "assert", d |-> d]
          ELSE Let(walk(G, used, grStart, grEnd, 0, <<>>), LAMBDA w :
                 IF w.res # "ok" THEN [res |-> w.res, d |-> d]
                 ELSE CHOOSE q \in {drawSolution(I, P, a, G, rest, nd) :
                                      rest \in {Tail(fs)},
                                      nd \in {draw(d, Head(fs), w.edges)}} : TRUE) :
            grStart \in {gridNds(P, a, G, getFrom(I, Head(fs)))},
            grEnd \in {gridNds(P, a, G, getTo(I, Head(fs)))},
            used \in {gridEdgs(P, a, G, Head(fs))}} : TRUE

\* addResEdg for every used edge, setStation for every hosting sink
resEdgs(I, P, a, G) ==
  UNION {{<<e, f>> : e \in gridEdgs(P, a, G, f)} : f \in Range(combEdgs(I))}

stations(I, P, a, G) ==
  {n \in Range(Sinks(G)) :
     \E nd \in 1..Len(I.pos) : VarVal(P, a, getStatPosVar(n, nd)) = 1}

\* ------------------------------------------------------------------------
\* settling comb edges on the base grid (OctiHananGraph::settleEdg,
\* unSettleEdg).  A grid state g holds the grid G, the sinks with opened sink
\* edges (open), the settled stations (sta), the reservations (res, pairs of
\* a grid edge and a comb edge), the sink cells whose turn edges are closed
\* (turns) and the blocked grid edges (blocked)
\* ------------------------------------------------------------------------
\* the grid state after reset and openTurns on every sink
resetGrid(G) ==
  [G |-> G, open |-> {}, sta |-> {}, res |-> {}, turns |-> {}, blocked |-> {}]

\* _resEdgs[ed]
resOf(g, ed) == {f \in {r[2] : r \in g.res} : <<ed, f>> \in g.res}

\* no major edge at a port of sink cell a carries a reservation
unused(g, a) ==
  \A p \in Range(Ports(g.G, a)) :
    /\ resOf(g, getNEdg(g.G, a, neigh(g.G, a, p))) = {}
    /\ resOf(g, getNEdg(g.G, neigh(g.G, a, p), a)) = {}

\* both directed edges of every crossing registered for grid edge ge
pairEdgs(G, ge) == UNION {{pr[1], pr[2]} : pr \in Range(edgePairs(G, ge))}

\* settleEdg without the blocking of the crossing diagonals
settleEdgNoBlock(g, a, b, e) ==
  IF a = b THEN g
  ELSE [g EXCEPT !.res = @ \cup {<<getNEdg(g.G, a, b), e>>, <<getNEdg(g.G, b, a), e>>},
                 !.turns = @ \cup {a, b}]

\* settleEdg(a, b, e) on sink cells a, b
settleEdg(g, a, b, e) ==
  IF a = b THEN g
  ELSE \* line 88-99
       LET ge == getNEdg(g.G, a, b)
           gf == getNEdg(g.G, b, a)
           g1 == [g EXCEPT !.res = @ \cup {<<ge, e>>, <<gf, e>>},
                           !.turns = @ \cup {a, b}]
       IN \* lines 102-109
          IF getDir(g.G, a, b) % 2 # 0
          THEN [g1 EXCEPT !.blocked = @ \cup pairEdgs(g.G, ge)]
          ELSE g1

\* unSettleEdg that erases the reservation of the edge from a to b only
unSettleEdgOneDir(g, ce, a, b) ==
  IF a = b THEN g
  ELSE [g EXCEPT !.res = @ \ {<<getNEdg(g.G, a, b), ce>>}]

\* unSettleEdg reopening the turns of both sinks as soon as the edge between
\* them is free
unSettleEdgEager(g, ce, a, b) ==
  IF a = b THEN g
  ELSE LET ge == getNEdg(g.G, a, b)
           g1 == [g EXCEPT !.res = @ \ {<<ge, ce>>, <<getNEdg(g.G, b, a), ce>>}]
           g2 == IF resOf(g1, ge) = {} THEN [g1 EXCEPT !.turns = @ \ {a, b}] ELSE g1
       IN IF getDir(g.G, a, b) % 2 # 0 /\ resOf(g1, ge) = {}
          THEN [g2 EXCEPT !.blocked = @ \ pairEdgs(g.G, ge)]
          ELSE g2

\* unSettleEdg(ce, a, b) on sink cells a, b
unSettleEdg(g, ce, a, b) ==
  IF a = b THEN g
  ELSE LET ge == getNEdg(g.G, a, b)
           gf == getNEdg(g.G, b, a)
           \* lines 44-45
           g1 == [g EXCEPT !.res = @ \ {<<ge, ce>>, <<gf, ce>>}]
           \* lines 47-50
           reopen == {x \in {a, b} : /\ resOf(g1, ge) = {}
                                     /\ Snk(x) \notin g.sta
                                     /\ unused(g1, x)}
           g2 == [g1 EXCEPT !.turns = @ \ reopen]
       IN \* lines 53-60
          IF getDir(g.G, a, b) % 2 # 0 /\ resOf(g1, ge) = {}
          THEN [g2 EXCEPT !.blocked = @ \ pairEdgs(g.G, ge)]
          ELSE g2

\* the grid state a heuristic run leaves: comb edge f settled on the grid
\* edges es
RECURSIVE settleAll(_, _, _)
settleAll(g, es, f) ==
  IF es = <<>> THEN g
  ELSE CHOOSE r \in {settleAll(h, Tail(es), f) :
                       h \in {settleEdg(g, Parent(Head(es)[1]), Parent(Head(es)[2]), f)}} : TRUE

\* ------------------------------------------------------------------------
\* the calls of optimize that are explored
\* ------------------------------------------------------------------------
\* largest cutoff maxGrDist and largest time limit of the small instances
MaxGrDist == 2
MaxTimeLim == 0

\* caller-supplied file paths, as character sequences
Paths == {<<>>, <<"p">>, <<"p", ".", "l", "p">>}

Conf(W, H, pos, edgs, ord, maxGrDist, noSolve, timeLim, heur, path) ==
  [W |-> W, H |-> H, pos |-> pos, edgs |-> edgs, ord |-> ord,
   maxGrDist |-> maxGrDist, noSolve |-> noSolve, timeLim |-> timeLim,
   heur |-> heur, path |-> path,
   lines |-> [f \in 1..Len(edgs) |-> {f}]]

\* two stations and one comb edge on a grid of two cells
LineConfs ==
  {Conf(2, 1, << <<0, 0>>, <<1, 0>> >>, << <<1, 2>> >>, << <<1>>, <<1>> >>,
        m, ns, tl, h, pa) :
     m \in 0..MaxGrDist, ns \in BOOLEAN, tl \in (0 - 1)..MaxTimeLim,
     h \in BOOLEAN, pa \in Paths}

\* a comb node of degree 2 on a grid whose sinks all have degree 1
BentConf ==
  Conf(2, 1, << <<0, 0>>, <<1, 0>>, <<0, 0>> >>, << <<1, 2>>, <<2, 3>> >>,
       << <<1>>, <<1, 2>>, <<2>> >>, MaxGrDist, FALSE, 0 - 1, FALSE, <<>>)

\* one comb edge along the diagonal of four cells, with an isolated comb node
DiagConf ==
  Conf(2, 2, << <<0, 0>>, <<1, 1>>, <<0, 1>> >>, << <<1, 2>> >>,
       << <<1>>, <<1>>, <<>> >>, 1, FALSE, 0, FALSE, <<>>)

\* two comb edges that can only be drawn on the two crossing diagonals
CrossConf ==
  Conf(2, 2, << <<0, 0>>, <<1, 1>>, <<0, 1>>, <<1, 0>> >>,
       << <<1, 2>>, <<3, 4>> >>, << <<1>>, <<1>>, <<2>>, <<2>> >>,
       1, FALSE, 0 - 1, FALSE, <<>>)

\* a comb node of degree 3 with its three neighbours, in both circular orders;
\* the first comb edge leaves the comb node or enters it
StarConfs ==
  {Conf(2, 2, << <<0, 0>>, <<1, 1>>, <<0, 1>>, <<1, 0>> >>,
        << e, <<1, 3>>, <<1, 4>> >>, << o, <<1>>, <<2>>, <<3>> >>,
        1, FALSE, 0, FALSE, <<>>) :
     o \in {<<1, 2, 3>>, <<2, 1, 3>>}, e \in {<<1, 2>>, <<2, 1>>}}

\* one comb edge between two neighbouring cells of the bottom row of a grid of
\* two by four cells; two comb nodes without edges put grid nodes on the rows
\* above, where three sinks form a triangle of major edges
TriConf ==
  Conf(2, 4, << <<0, 0>>, <<1, 0>>, <<0, 2>>, <<1, 1>> >>, << <<1, 2>> >>,
       << <<1>>, <<1>>, <<>>, <<>> >>, 1, FALSE, 0, FALSE, <<>>)

\* two stations at the ends of a row of three cells, drawn by a heuristic run
\* through the sink between them, which holds a comb node without edges
PassConf ==
  Conf(3, 1, << <<0, 0>>, <<2, 0>>, <<1, 0>> >>, << <<1, 2>> >>,
       << <<1>>, <<1>>, <<>> >>, MaxGrDist, FALSE, 0 - 1, TRUE, <<>>)

\* a comb node of degree 2 in a corner of four cells or in the middle of a row
\* of three, its two comb edges carrying the same line
AngleConfs ==
  {[Conf(2, 2, << <<0, 0>>, u, w >>, << <<1, 2>>, <<1, 3>> >>,
         << <<1, 2>>, <<1>>, <<2>> >>, 1, FALSE, 0 - 1, FALSE, <<>>)
      EXCEPT !.lines = <<{1}, {1}>>] :
     u \in {<<1, 0>>, <<0, 1>>, <<1, 1>>}, w \in {<<1, 0>>, <<0, 1>>}}
  \cup
  {[Conf(3, 1, << <<1, 0>>, u, <<2 - u[1], 0>> >>, << <<1, 2>>, <<1, 3>> >>,
         << <<1, 2>>, <<1>>, <<2>> >>, 1, FALSE, 0 - 1, FALSE, <<>>)
      EXCEPT !.lines = <<{1}, {1}>>] : u \in {<<0, 0>>, <<2, 0>>}}

\* three stations in a row of three cells, drawn by a heuristic run: the first
\* comb edge enters the station in the middle, the second leaves it
ChainConf ==
  Conf(3, 1, << <<1, 0>>, <<0, 0>>, <<2, 0>> >>, << <<2, 1>>, <<1, 3>> >>,
       << <<1, 2>>, <<1>>, <<2>> >>, MaxGrDist, FALSE, 0 - 1, TRUE, <<>>)

Instances ==
  LineConfs \cup {BentConf, DiagConf, CrossConf, PassConf, ChainConf}
  \cup StarConfs \cup {c \in AngleConfs : c.pos[2] # c.pos[3]}

Grid(I) == init(I.W, I.H, Range(I.pos))

\* ------------------------------------------------------------------------
\* ILPGridOptimizer::optimize
\* ------------------------------------------------------------------------
NoLp == [cols |-> <<>>, nm |-> <<>>, rows |-> <<>>, rowsOf |-> <<>>]

\* ILPStats s{inf, 0, 0, 0, 0}
NoStats == [score |-> "inf", cols |-> 0, rows |-> 0, optimal |-> FALSE]

\* Drawing::crumble
crumble(I) == [f \in 1..Len(I.edgs) |-> <<>>]

\* the grid edges of the straight walk from cell a eastwards to cell b, last
\* edge first; empty when b is not reached
RECURSIVE eastPath(_, _, _, _)
eastPath(G, a, b, acc) ==
  IF a = b THEN acc
  ELSE IF a[2] # b[2] \/ a[1] > b[1] \/ neigh(G, a, 2) = NoNd THEN <<>>
  ELSE CHOOSE r \in {eastPath(G, n, b, <<getNEdg(G, a, n)>> \o acc) :
                       n \in {neigh(G, a, 2)}} : TRUE

\* the drawing a heuristic run leaves behind: every comb edge on the grid
\* edges between the cells of its two comb nodes
heurDrawing(I, G) ==
  [f \in 1..Len(I.edgs) |->
     eastPath(G, I.pos[getFrom(I, f)], I.pos[getTo(I, f)], <<>>)]

\* getSettled: the sink a heuristic run settled comb node nd on
getSettled(I, g, nd) ==
  IF Snk(I.pos[nd]) \in g.sta THEN Snk(I.pos[nd]) ELSE NoNd

\* the secondary edges leaving port portNd, also into its sink
bendEdgsBoth(G, portNd) ==
  SelectSeq(getAdjListOut(G, portNd) \o getAdjListIn(G, portNd), isSecondary)

\* the secondary edges leaving port portNd, lines 774-775
bendEdgs(G, portNd) == SelectSeq(getAdjListOut(G, portNd), isSecondary)

\* the comb edges leaving comb node nd, lines 776-777
edgsFrom(I, nd) == {f \in Range(getAdjList(I, nd)) : getFrom(I, f) = nd}

\* the names set to 0 for comb node nd at the sink of cell c, lines 767-796
starterZeros(I, g, nd, c) ==
  IF Snk(c) = getSettled(I, g, nd)
  THEN {getEdgUseVar(e, f) :
          e \in UNION {Range(bendEdgs(g.G, Port(c, p))) : p \in Range(Ports(g.G, c))},
          f \in edgsFrom(I, nd)}
  ELSE {getStatPosVar(Snk(c), nd)}
       \cup {getEdgUseVar(e, f) : e \in Range(getAdjListOut(g.G, Snk(c))),
                                  f \in edgsFrom(I, nd)}

\* extractFeasibleSol writing the zeros of the major edges after the paths
extractFeasibleSolZerosLast(I, g, d) ==
  LET near == {x \in (1..Len(I.pos)) \X g.G.S :
                 /\ combDeg(I, x[1]) > 0
                 /\ dist2(I, x[1], x[2]) < I.maxGrDist * I.maxGrDist}
      spOne == {getStatPosVar(Snk(x[2]), x[1]) :
                  x \in {y \in near : Snk(y[2]) = getSettled(I, g, y[1])}}
      zeros == UNION {starterZeros(I, g, x[1], x[2]) : x \in near}
      major == {getEdgUseVar(e, f) : e \in Range(majorEdgs(g.G)),
                                     f \in Range(combEdgs(I))}
      drawn == UNION {{getEdgUseVar(e, f) : e \in Range(d[f])} : f \in DOMAIN d}
  IN [n \in spOne \cup zeros \cup major \cup drawn |->
        IF n \in spOne \cup (drawn \ major) THEN 1 ELSE 0]

\* ILPGridOptimizer::extractFeasibleSol: the warm start read from the grid g
\* and the drawing d of a heuristic run, a function from names to values
extractFeasibleSol(I, g, d) ==
  LET near == {x \in (1..Len(I.pos)) \X g.G.S :
                 /\ combDeg(I, x[1]) > 0
                 /\ dist2(I, x[1], x[2]) < I.maxGrDist * I.maxGrDist}
      spOne == {getStatPosVar(Snk(x[2]), x[1]) :
                  x \in {y \in near : Snk(y[2]) = getSettled(I, g, y[1])}}
      zeros == UNION {starterZeros(I, g, x[1], x[2]) : x \in near}
      major == {getEdgUseVar(e, f) : e \in Range(majorEdgs(g.G)),
                                     f \in Range(combEdgs(I))}
      drawn == UNION {{getEdgUseVar(e, f) : e \in Range(d[f])} : f \in DOMAIN d}
  IN [n \in spOne \cup zeros \cup major \cup drawn |->
        IF n \in spOne \cup drawn THEN 1 ELSE 0]

\* StarterSol sol of a call that has not read the heuristic drawing yet
NoSol == <<>>

\* s.cols, s.rows of lines 54-55
builtStats(s, P) == [s EXCEPT !.cols = Len(P.cols), !.rows = Len(P.rows)]

\* basename of lines 60-62: path up to its last "."
basename(path) ==
  IF \E k \in 1..Len(path) : path[k] = "."
  THEN SubSeq(path, 1, (CHOOSE k \in 1..Len(path) :
                          path[k] = "." /\ \A j \in (k + 1)..Len(path) : path[j] # ".") - 1)
  ELSE path

\* writtenFiles naming the model file after the stem as well
writtenFilesStem(path) ==
  IF Len(path) > 0
  THEN {<<"mst", basename(path) \o <<".", "m", "s", "t">> >>,
        <<"mps", basename(path) \o <<".", "m", "p", "s">> >>}
  ELSE {}

\* the files written by lines 59-68
writtenFiles(path) ==
  IF Len(path) > 0
  THEN {<<"mst", basename(path) \o <<".", "m", "s", "t">> >>, <<"mps", path>>}
  ELSE {}

\* the solve branch taken whatever noSolve is
skipSolveNever(I) == FALSE

\* line 72
skipSolve(I) == I.noSolve

\* line 73
hasTimeLim(I) == I.timeLim >= 0

\* every decoded solution reported as optimal
isOptimalAnySolution(st) == st # "INF"

\* line 94
isOptimal(st) == st = "OPTIM"

InitOf(Confs) ==
  /\ inst \in Confs
  /\ pc = "entry"
  /\ gg = IF inst.heur
          THEN LET G == Grid(inst)
                   hd == heurDrawing(inst, G)
                   settle[k \in 0..Len(inst.edgs)] ==
                     IF k = 0
                     THEN [resetGrid(G) EXCEPT
                             !.sta = {Snk(inst.pos[v]) : v \in
                                        {w \in 1..Len(inst.pos) : combDeg(inst, w) > 0}},
                             !.turns = {inst.pos[v] : v \in
                                          {w \in 1..Len(inst.pos) : combDeg(inst, w) > 0}}]
                     ELSE settleAll(settle[k - 1], hd[k], k)
               IN settle[Len(inst.edgs)]
          ELSE resetGrid(Grid(inst))
  /\ drawing = IF inst.heur THEN heurDrawing(inst, Grid(inst)) ELSE crumble(inst)
  /\ lp = NoLp
  /\ asg = <<>>
  /\ status = "none"
  /\ stats = NoStats
  /\ lpAlive = FALSE
  /\ calls = <<>>
  /\ files = {}
  /\ err = "none"
  /\ sol = NoSol
  /\ tg = NoGraph

Init == InitOf(Instances)

\* Enter with the warm start read after the reset and the clearing
EnterResetFirst ==
  /\ pc = "entry"
  /\ sol' = extractFeasibleSol(inst, resetGrid(gg.G), crumble(inst))
  /\ gg' = resetGrid(gg.G)
  /\ drawing' = crumble(inst)
  /\ stats' = NoStats
  /\ pc' = "build"
  /\ UNCHANGED <<tg, inst, lp, asg, status, lpAlive, calls, files, err>>

\* lines 33-50: read the warm start, reset the grid, close every sink, clear
\* the drawing
Enter ==
  /\ pc = "entry"
  /\ sol' = extractFeasibleSol(inst, gg, drawing)
  /\ gg' = resetGrid(gg.G)
  /\ drawing' = crumble(inst)
  /\ stats' = NoStats
  /\ pc' = "build"
  /\ UNCHANGED <<tg, inst, lp, asg, status, lpAlive, calls, files, err>>

\* lines 52-57: build the problem, which opens the candidate sinks
Build ==
  /\ pc = "build"
  /\ lp' = createProblem(inst, gg.G)
  /\ lpAlive' = TRUE
  /\ gg' = [gg EXCEPT !.open = openedSinks(inst, gg.G)]
  /\ stats' = builtStats(stats, lp')
  /\ calls' = Append(calls, "setStarter")
  /\ pc' = "write"
  /\ UNCHANGED <<tg, sol, inst, drawing, asg, status, files, err>>

\* lines 59-68
WriteFiles ==
  /\ pc = "write"
  /\ files' = files \cup writtenFiles(inst.path)
  /\ pc' = "branch"
  /\ UNCHANGED <<tg, sol, inst, gg, drawing, lp, asg, status, stats, lpAlive, calls, err>>

\* lines 72, 97-99 with noSolve
SkipSolve ==
  /\ pc = "branch"
  /\ skipSolve(inst)
  /\ lpAlive' = FALSE
  /\ pc' = "returned"
  /\ UNCHANGED <<tg, sol, inst, gg, drawing, lp, asg, status, stats, calls, files, err>>

\* lines 72-78 up to the call of solve
CallSolve ==
  /\ pc = "branch"
  /\ ~skipSolve(inst)
  /\ calls' = calls \o (IF hasTimeLim(inst) THEN <<"setTimeLim">> ELSE <<>>)
                    \o <<"solve">>
  /\ asg' = <<>>
  /\ pc' = "solve"
  /\ UNCHANGED <<tg, sol, inst, gg, drawing, lp, status, stats, lpAlive, files, err>>

\* the solver fixes the next column
Branch ==
  /\ pc = "solve"
  /\ \E v \in {w \in 0..maxDeg : CanBranch(lp, asg, w)} : asg' = Append(asg, v)
  /\ UNCHANGED <<tg, sol, inst, pc, gg, drawing, lp, status, stats, lpAlive, calls, files, err>>

\* solve returns with a satisfying assignment: proven optimal, or the best
\* one found when the time limit ran out
SolveFound ==
  /\ pc = "solve"
  /\ Len(asg) = Len(lp.cols)
  /\ (Len(asg) = 0) => (RootPossible(lp) = TRUE)
  /\ \E st \in {"OPTIM", "SUBOPTIM_TIMEOUT"} :
       /\ st = "SUBOPTIM_TIMEOUT" => "setTimeLim" \in Range(calls)
       /\ status' = st
  /\ pc' = "solved"
  /\ UNCHANGED <<tg, sol, inst, gg, drawing, lp, asg, stats, lpAlive, calls, files, err>>

\* solve returns INF: the rows cannot be satisfied, or the time limit ran out
\* before a satisfying assignment was found
SolveInf ==
  /\ pc = "solve"
  /\ IF "setTimeLim" \in Range(calls) /\ Len(asg) < Len(lp.cols) THEN TRUE
     ELSE asg = <<>> /\ ~Feasible(lp)
  /\ asg' = <<>>
  /\ status' = "INF"
  /\ pc' = "solved"
  /\ UNCHANGED <<tg, sol, inst, gg, drawing, lp, stats, lpAlive, calls, files, err>>

\* the error message of lines 83-85
InfHint == "No solution found for ILP problem (most likely because of a time limit)!"

\* lines 81-86 without the delete of the solver handle
ThrowInfLeak ==
  /\ pc = "solved"
  /\ status = "INF"
  /\ err' = InfHint
  /\ pc' = "thrown"
  /\ UNCHANGED <<tg, sol, inst, gg, drawing, lp, asg, status, stats, lpAlive, calls, files>>

\* lines 81-86
ThrowInf ==
  /\ pc = "solved"
  /\ status = "INF"
  /\ lpAlive' = FALSE
  /\ err' = InfHint
  /\ pc' = "thrown"
  /\ UNCHANGED <<tg, sol, inst, gg, drawing, lp, asg, status, stats, calls, files>>

\* line 88: extractSolution
Decode ==
  /\ pc = "solved"
  /\ status # "INF"
  /\ \E r \in {drawSolution(inst, lp, asg, gg.G, combEdgs(inst), drawing)} :
        /\ drawing' = r.d
        /\ pc' = CASE r.res = "ok" -> "decoded"
                   [] r.res = "assert" -> "aborted"
                   [] OTHER -> "hung"
  /\ gg' = [gg EXCEPT !.res = resEdgs(inst, lp, asg, gg.G),
                      !.sta = stations(inst, lp, asg, gg.G)]
  /\ calls' = Append(calls, "extractSolution")
  /\ UNCHANGED <<tg, sol, inst, lp, asg, status, stats, lpAlive, files, err>>

\* lines 92-99
Finish ==
  /\ pc = "decoded"
  /\ stats' = [stats EXCEPT !.score = "objVal", !.optimal = isOptimal(status)]
  /\ lpAlive' = FALSE
  /\ pc' = "returned"
  /\ UNCHANGED <<tg, sol, inst, gg, drawing, lp, asg, status, calls, files, err>>

Next ==
  \/ Enter
  \/ Build
  \/ WriteFiles
  \/ SkipSolve
  \/ CallSolve
  \/ Branch
  \/ SolveFound
  \/ SolveInf
  \/ ThrowInf
  \/ Decode
  \/ Finish

Spec == Init /\ [][Next]_vars

\* ------------------------------------------------------------------------
\* optimize on the triangle instance, with a solver that searches only the
\* assignments using grid edges of the bottom row and of the triangle
\* ------------------------------------------------------------------------
\* the direct path between the two stations
TriPath ==
  {<<Snk(<<0, 0>>), Port(<<0, 0>>, 2)>>,
   <<Port(<<0, 0>>, 2), Port(<<1, 0>>, 6)>>,
   <<Port(<<1, 0>>, 6), Snk(<<1, 0>>)>>}

\* the triangle (0, 1) -> (1, 1) -> (0, 2) -> (0, 1) with its bend edges
TriCycle ==
  {<<Port(<<0, 1>>, 2), Port(<<1, 1>>, 6)>>,
   <<Port(<<1, 1>>, 6), Port(<<1, 1>>, 7)>>,
   <<Port(<<1, 1>>, 7), Port(<<0, 2>>, 3)>>,
   <<Port(<<0, 2>>, 3), Port(<<0, 2>>, 4)>>,
   <<Port(<<0, 2>>, 4), Port(<<0, 1>>, 0)>>,
   <<Port(<<0, 1>>, 0), Port(<<0, 1>>, 2)>>}

\* the column called name may take a value other than 0
InFocus(name) ==
  name[1] = "edg" => <<name[2], name[3]>> \in TriPath \cup TriCycle

InitTri == InitOf({TriConf})

\* the solver fixes the next column, to 0 outside the searched edges
BranchFocus ==
  /\ pc = "solve"
  /\ Len(asg) < Len(lp.cols)
  /\ \E v \in 0..maxDeg : /\ v # 0 => InFocus(lp.nm[Len(asg) + 1])
                          /\ CanBranch(lp, asg, v)
                          /\ asg' = Append(asg, v)
  /\ UNCHANGED <<tg, sol, inst, pc, gg, drawing, lp, status, stats, lpAlive, calls, files, err>>

NextTri ==
  \/ Enter
  \/ Build
  \/ WriteFiles
  \/ CallSolve
  \/ BranchFocus
  \/ SolveFound
  \/ SolveInf
  \/ ThrowInf
  \/ Decode
  \/ Finish

SpecTri == InitTri /\ [][NextTri]_vars

\* ------------------------------------------------------------------------
\* build runs of optimize at every placement of the comb graph in memory
\* ------------------------------------------------------------------------
\* largest address of a comb node or comb edge
MaxAddr == 4

\* the placements of the comb nodes and comb edges of I at distinct addresses
Heaps(I) ==
  {h \in [nd : [1..Len(I.pos) -> 1..MaxAddr], edg : [1..Len(I.edgs) -> 1..MaxAddr]] :
     /\ \A v \in 1..Len(I.pos) : \A w \in 1..Len(I.pos) : h.nd[v] = h.nd[w] => v = w
     /\ \A f \in 1..Len(I.edgs) : \A g \in 1..Len(I.edgs) : h.edg[f] = h.edg[g] => f = g
     /\ \A v \in 1..Len(I.pos) : \A f \in 1..Len(I.edgs) : h.nd[v] # h.edg[f]}

\* a column or row name as the stringstream prints it: "<<" of a CombNode*
\* or CombEdge* prints the address, a grid node is printed by its id
printName(name, heap) ==
  CASE name[1] = "sp" -> <<name[1], name[2], heap.nd[name[3]]>>
    [] name[1] = "edg" -> <<name[1], name[2], name[3], heap.edg[name[4]]>>
    [] name[1] \in {"d", "dc"} -> <<name[1], heap.nd[name[2]], heap.edg[name[3]]>>
    [] name[1] \in {"vuln", "oc"} -> <<name[1], heap.nd[name[2]], name[3]>>
    [] name[1] \in {"oneass", "vc"} -> <<name[1], heap.nd[name[2]]>>
    [] name[1] \in {"as", "ss"} -> <<name[1], name[2], heap.edg[name[3]]>>
    [] OTHER -> name

\* the content of the MPS file of problem P: columns and rows in the order of
\* their creation, under their printed names
mpsBytes(P, heap) ==
  [cols |-> [k \in 1..Len(P.cols) |->
               [P.cols[k] EXCEPT !.name = printName(P.cols[k].name, heap)]],
   rows |-> [k \in 1..Len(P.rows) |->
               [P.rows[k] EXCEPT !.name = printName(P.rows[k].name, heap)]]]

\* build-only calls for the two-station line, with a file path
DetConfs ==
  {c \in LineConfs : c.noSolve /\ ~c.heur /\ c.timeLim < 0 /\ c.path # <<>>}

InitDet ==
  InitOf(UNION {{c @@ [addr |-> h] : h \in Heaps(c)} : c \in DetConfs})

\* lines 59-68 with the content of the MPS file
WriteMps ==
  /\ pc = "write"
  /\ files' = {<<"mst", basename(inst.path) \o <<".", "m", "s", "t">> >>,
               <<"mps", inst.path, mpsBytes(lp, inst.addr)>>}
  /\ pc' = "branch"
  /\ UNCHANGED <<tg, sol, inst, gg, drawing, lp, asg, status, stats, lpAlive, calls, err>>

NextDet ==
  \/ Enter
  \/ Build
  \/ WriteMps
  \/ SkipSolve

SpecDet == InitDet /\ [][NextDet]_vars

\* ------------------------------------------------------------------------
\* sequences of settleEdg and unSettleEdg calls on the grid of four cells
\* ------------------------------------------------------------------------
\* largest number of calls in a sequence
MaxOps == 3

\* four input nodes on a grid of 4 x 4 cells: cell (1, 1) lies on no active
\* x, y or x - y line and gets no node, so that the yx edge (0, 2)-(2, 0)
\* spans two cells and is the first yx edge after both (0, 1) and (1, 0)
TwoCrossConf ==
  Conf(4, 4, << <<0, 2>>, <<2, 0>>, <<2, 3>>, <<3, 2>> >>,
       << <<1, 2>>, <<3, 4>> >>, << <<1>>, <<1>>, <<2>>, <<2>> >>,
       1, FALSE, 0 - 1, FALSE, <<>>)

\* the grid is reset; a station may be settled on the sink of cell (0, 0)
InitGridOn(I) ==
  /\ inst = I
  /\ pc = "grid"
  /\ \E st \in {{}, {<<0, 0>>}} :
       gg = [resetGrid(Grid(inst)) EXCEPT !.sta = {Snk(c) : c \in st}, !.turns = st]
  /\ drawing = crumble(inst)
  /\ lp = NoLp
  /\ asg = <<>>
  /\ status = "none"
  /\ stats = NoStats
  /\ lpAlive = FALSE
  /\ calls = <<>>
  /\ files = {}
  /\ err = "none"
  /\ sol = NoSol
  /\ tg = NoGraph

InitGrid == InitGridOn(CrossConf)

\* the sinks a and b a caller may hand to settleEdg and unSettleEdg: the same
\* sink, or two sinks joined by a major edge; a caller unsettles a comb edge
\* only from a grid edge it was settled on; on the grid of 4 x 4 cells the
\* callers explored hand over, from their lower end, the diagonal edges that
\* have a registered crossing
Joined(G, a, b) ==
  \/ /\ getNEdg(G, a, b) # NoNd
     /\ G.W > CrossConf.W =>
          /\ getDir(G, a, b) \in {1, 3}
          /\ edgePairs(G, getNEdg(G, a, b)) # <<>>
  \/ (a = b /\ a = G.nds[1])

SettleEdg ==
  /\ pc = "grid"
  /\ Len(calls) < MaxOps
  /\ \E a \in gg.G.S : \E b \in gg.G.S : \E e \in 1..Len(inst.edgs) :
       /\ Joined(gg.G, a, b)
       /\ gg' = settleEdg(gg, a, b, e)
       /\ calls' = Append(calls, <<"settleEdg", a, b, e>>)
  /\ UNCHANGED <<tg, sol, inst, pc, drawing, lp, asg, status, stats, lpAlive, files, err>>

UnSettleEdg ==
  /\ pc = "grid"
  /\ Len(calls) < MaxOps
  /\ \E a \in gg.G.S : \E b \in gg.G.S : \E e \in 1..Len(inst.edgs) :
       /\ Joined(gg.G, a, b)
       /\ a # b => e \in resOf(gg, getNEdg(gg.G, a, b))
       /\ gg' = unSettleEdg(gg, e, a, b)
       /\ calls' = Append(calls, <<"unSettleEdg", a, b, e>>)
  /\ UNCHANGED <<tg, sol, inst, pc, drawing, lp, asg, status, stats, lpAlive, files, err>>

NextGrid ==
  \/ SettleEdg
  \/ UnSettleEdg

SpecGrid == InitGrid /\ [][NextGrid]_vars

\* the same calls on the grid with a yx edge registered for two xy edges
InitTwoCross == InitGridOn(TwoCrossConf)

SpecTwoCross == InitTwoCross /\ [][NextGrid]_vars

\* ------------------------------------------------------------------------
\* OctiHananGraph::init on arbitrary input cells
\* ------------------------------------------------------------------------
MaxW == 4
MaxH == 3

\* the cost INF of a closed edge
INF == <<"INF">>

\* a size_t value: v, or 2^64 - v when the subtraction wrapped around
uSub(i, j) ==
  IF i >= j THEN [wrapped |-> FALSE, v |-> i - j]
  ELSE [wrapped |-> TRUE, v |-> j - i]

\* c + x in size_t arithmetic: a wrapped x comes back to c - x.v when c >= x.v
uAdd(c, x) ==
  IF ~x.wrapped THEN [wrapped |-> FALSE, v |-> c + x.v]
  ELSE IF c >= x.v THEN [wrapped |-> FALSE, v |-> c - x.v]
  ELSE [wrapped |-> TRUE, v |-> x.v - c]

\* x % 8 in size_t arithmetic (8 divides 2^64)
uRem8(x) == IF ~x.wrapped THEN x.v % 8 ELSE (8 - (x.v % 8)) % 8

\* angFold without the mirroring of the angles above 4
angFoldNoMirror(i, j) == uRem8(uAdd(8, uSub(i, j))) % 4

\* the value "ang" of lines 68-70
angFold(i, j) ==
  LET a == uRem8(uAdd(8, uSub(i, j)))
      b == IF a > 4 THEN 8 - a ELSE a
  IN b % 4

\* the value "deg" of lines 65-66, in int arithmetic
angDeg(i, j) == Abs(CRem(CRem((i - j) + 4, 8) + 8, 8) - 4) % 4

\* ang(i, j): the turn between ports i and j in steps of 45 degrees, folded
\* to 0..3 (an opposite pair gives 0)
ang(i, j) == angFold(i, j)

\* _bendCosts[ang(i, j)]
getBendPen(i, j) == <<"bendCost", ang(i, j)>>

\* cost given to the bend edges between ports i < j of the sink of cell c by
\* writeNd
bendPen(G, c, i, j) == IF bendInf(G, c, i, j) THEN INF ELSE getBendPen(i, j)

\* the bend edges of the sink of cell c once the ports are pruned, with cost
bendEdgCosts(G, c) ==
  [e \in {b \in {<<Port(c, i), Port(c, j)>> : i \in Range(Ports(G, c)),
                                                j \in Range(Ports(G, c))} :
            b[1] # b[2]}
     |-> bendPen(G, c, Min(e[1][3], e[2][3]), Max(e[1][3], e[2][3]))]

\* input nodes on two or three cells of a grid of MaxW x MaxH cells
HananConfs ==
  {Conf(MaxW, MaxH, CellSeq(C, MaxW, MaxH), <<>>, [k \in 1..Cardinality(C) |-> <<>>],
        1, TRUE, 0 - 1, FALSE, <<>>) :
     C \in {D \in SUBSET Cells(MaxW, MaxH) : Cardinality(D) \in {2, 3}}}

\* before init the grid holds no node
InitHanan ==
  /\ inst \in HananConfs
  /\ pc = "init"
  /\ gg = resetGrid(init(inst.W, inst.H, {}))
  /\ drawing = crumble(inst)
  /\ lp = NoLp
  /\ asg = <<>>
  /\ status = "none"
  /\ stats = NoStats
  /\ lpAlive = FALSE
  /\ calls = <<>>
  /\ files = {}
  /\ err = "none"
  /\ sol = NoSol
  /\ tg = NoGraph

\* init: the nodes, the major edges, the crossing pairs and the bend edges
InitGraph ==
  /\ pc = "init"
  /\ gg' = resetGrid(Grid(inst))
  /\ pc' = "hanan"
  /\ UNCHANGED <<tg, sol, inst, drawing, lp, asg, status, stats, lpAlive, calls, files, err>>

NextHanan == InitGraph

SpecHanan == InitHanan /\ [][NextHanan]_vars

\* ------------------------------------------------------------------------
\* extractSolution on arbitrary column values
\* ------------------------------------------------------------------------
\* two stations and one comb edge on a grid of two cells, with solving
WalkConfs ==
  {c \in LineConfs : /\ ~c.noSolve /\ ~c.heur /\ c.timeLim < 0 /\ c.path = <<>>
                     /\ c.maxGrDist = MaxGrDist}

\* solve has returned; getVarVal may give any 0/1 value for each column
InitWalk ==
  /\ inst \in WalkConfs
  /\ pc = "solved"
  /\ lp = createProblem(inst, Grid(inst))
  /\ gg = [resetGrid(Grid(inst)) EXCEPT !.open = openedSinks(inst, Grid(inst))]
  /\ asg \in [1..Len(lp.cols) -> 0..1]
  /\ status = "OPTIM"
  /\ drawing = crumble(inst)
  /\ stats = builtStats(NoStats, lp)
  /\ lpAlive = TRUE
  /\ calls = <<"setStarter", "solve">>
  /\ files = {}
  /\ err = "none"
  /\ sol = NoSol
  /\ tg = NoGraph

NextWalk ==
  \/ Decode
  \/ Finish

SpecWalk == InitWalk /\ [][NextWalk]_vars

\* ------------------------------------------------------------------------
\* MapConstructor::combineNodes on a line graph.  A line graph holds its
\* nodes (nds) and its edges in creation order (edgs); an edge holds its end
\* nodes fr and to and its lines, pairs of a line and the node the line runs
\* towards (0: both directions).  Edges are undirected: getEdg(u, v) finds
\* the edge between u and v whatever its orientation
\* ------------------------------------------------------------------------
MaxContr == 4

LEdge(fr, to, lines) == [fr |-> fr, to |-> to, lines |-> lines]

\* g->getEdg(u, v): the position of the first edge between u and v, or 0
lineGetEdg(g, u, v) ==
  LET ks == {k \in 1..Len(g.edgs) : {g.edgs[k].fr, g.edgs[k].to} = {u, v}}
  IN IF ks = {} THEN 0 ELSE CHOOSE k \in ks : \A j \in ks : k <= j

\* e->getOtherNd(n)
getOtherNd(e, n) == IF e.fr = n THEN e.to ELSE e.fr

\* LineGraph::sharedNode
sharedNode(ea, eb) ==
  IF ea.fr \in {eb.fr, eb.to} THEN ea.fr
  ELSE IF ea.to \in {eb.fr, eb.to} THEN ea.to
  ELSE 0

\* LineGraph::nodeRpl on the lines of an edge: directions towards a become
\* directions towards b
nodeRpl(lines, a, b) == {<<l[1], IF l[2] = a THEN b ELSE l[2]>> : l \in lines}

lineNames(e) == {l[1] : l \in e.lines}
lineOcc(e, ln) == CHOOSE l \in e.lines : l[1] = ln

\* foldEdges that leaves the lines of edge b as they are
foldEdgesKeep(ea, eb) == eb.lines

\* foldEdges(a, b): the lines of edge b after edge a was folded into it
foldEdges(ea, eb) ==
  LET shrNd == sharedNode(ea, eb)
      folded(ln) ==
        IF ln \notin lineNames(ea) THEN lineOcc(eb, ln)[2]
        ELSE LET ro == lineOcc(ea, ln)[2]
             IN IF ln \notin lineNames(eb)
                THEN IF ro = 0 THEN 0
                     ELSE IF ro = shrNd THEN shrNd
                     ELSE getOtherNd(eb, shrNd)
                ELSE LET old == lineOcc(eb, ln)[2]
                     IN IF \/ ro = 0 /\ old # 0
                           \/ ro = shrNd /\ old # shrNd
                           \/ ro # shrNd /\ old = shrNd
                        THEN 0 ELSE old
  IN {<<ln, folded(ln)>> : ln \in lineNames(ea) \cup lineNames(eb)}

\* one pass of a loop of combineNodes over the edge oldE of node a; x is
\* the other node of oldE, out tells whether oldE leaves a
moveEdg(acc, oldE, a, b, out) ==
  IF acc.res # "ok" THEN acc
  ELSE LET x == IF out THEN oldE.to ELSE oldE.fr
           k == lineGetEdg(acc.g, b, x)
       IN IF x = b THEN [acc EXCEPT !.res = "assert"]
          ELSE IF k = 0
          THEN [acc EXCEPT !.g.edgs =
                  Append(@, LEdge(IF out THEN b ELSE x, IF out THEN x ELSE b,
                                  nodeRpl(oldE.lines, a, b)))]
          ELSE IF sharedNode(oldE, acc.g.edgs[k]) = 0
          THEN [acc EXCEPT !.res = "assert"]
          ELSE [acc EXCEPT !.g.edgs[k].lines =
                  nodeRpl(foldEdges(oldE, acc.g.edgs[k]), a, b)]

\* the loop over the edges es
RECURSIVE moveEdgs(_, _, _, _, _)
moveEdgs(acc, es, a, b, out) ==
  IF es = <<>> THEN acc
  ELSE CHOOSE r \in {moveEdgs(nxt, rest, a, b, out) :
                       nxt \in {moveEdg(acc, Head(es), a, b, out)},
                       rest \in {Tail(es)}} : TRUE

\* g->delNd(a): the node goes with its edges
delNd(g, a) ==
  [nds |-> g.nds \ {a},
   edgs |-> SelectSeq(g.edgs, LAMBDA e : e.fr # a /\ e.to # a)]

\* combineNodes(a, b): res is "assert" when an assertion fails
combineNodes(g, a, b) ==
  LET connecting == lineGetEdg(g, a, b)
      others == SelectSeq([k \in 1..Len(g.edgs) |-> k], LAMBDA k : k # connecting)
      outs == SelectSeq([i \in 1..Len(others) |-> g.edgs[others[i]]],
                        LAMBDA e : e.fr = a)
      ins == SelectSeq([i \in 1..Len(others) |-> g.edgs[others[i]]],
                       LAMBDA e : e.to = a)
  IN IF connecting = 0 THEN [res |-> "assert", g |-> g]
     ELSE Let(moveEdgs(moveEdgs([res |-> "ok", g |-> g], outs, a, b, TRUE),
                       ins, a, b, FALSE),
              LAMBDA r : IF r.res # "ok" THEN [res |-> r.res, g |-> g]
                         ELSE [res |-> "ok", g |-> delNd(r.g, a)])

\* the first graph of ContractTest2::run; a, b, c, d, e, x, y are 1..7
TestGraph1 ==
  [nds |-> 1..7,
   edgs |-> << LEdge(1, 6, {<<1, 0>>, <<2, 0>>}), LEdge(7, 2, {<<1, 0>>, <<2, 0>>}),
               LEdge(1, 4, {<<2, 0>>}), LEdge(2, 4, {<<1, 0>>, <<2, 0>>}),
               LEdge(3, 5, {<<1, 0>>}), LEdge(4, 3, {<<1, 0>>}),
               LEdge(5, 1, {<<1, 0>>, <<2, 0>>}), LEdge(5, 2, {<<2, 0>>}) >>]

\* the second graph; a, b, c, d, e are 1..5
TestGraph2 ==
  [nds |-> 1..5,
   edgs |-> << LEdge(1, 2, {<<1, 2>>, <<2, 0>>}), LEdge(2, 3, {<<1, 3>>, <<2, 0>>}),
               LEdge(3, 4, {<<1, 4>>, <<2, 0>>}), LEdge(5, 2, {<<1, 5>>, <<2, 0>>}),
               LEdge(5, 3, {<<1, 3>>, <<2, 0>>}) >>]

\* the third graph; a, b, c are 1..3
TestGraph3 ==
  [nds |-> 1..3, edgs |-> << LEdge(1, 2, {<<1, 0>>}), LEdge(2, 3, {<<2, 0>>}) >>]

\* the line graphs on four nodes in which every two nodes are joined by no
\* edge, by an edge from the lower to the higher node with line 1, or by an
\* edge from the higher to the lower node with line 1 towards the lower node
\* and line 2
SmallGraphs ==
  LET prs == << <<1, 2>>, <<1, 3>>, <<1, 4>>, <<2, 3>>, <<2, 4>>, <<3, 4>> >>
      edgOf(p, o) == IF o = 1 THEN LEdge(p[1], p[2], {<<1, 0>>})
                     ELSE LEdge(p[2], p[1], {<<1, p[1]>>, <<2, 0>>})
  IN {[nds |-> 1..4,
       edgs |-> FlatMap(LAMBDA k : IF ch[k] = 0 THEN <<>>
                                   ELSE <<edgOf(prs[k], ch[k])>>,
                        [k \in 1..6 |-> k])] : ch \in [1..6 -> 0..2]}

\* the optimizer is not involved: an instance without comb nodes
NoConf == Conf(1, 1, <<>>, <<>>, <<>>, 0, TRUE, 0 - 1, FALSE, <<>>)

InitTopo ==
  /\ tg \in {TestGraph1, TestGraph2, TestGraph3} \cup SmallGraphs
  /\ pc = "topo"
  /\ inst = NoConf
  /\ gg = resetGrid(Grid(inst))
  /\ drawing = crumble(inst)
  /\ lp = NoLp
  /\ asg = <<>>
  /\ status = "none"
  /\ stats = NoStats
  /\ lpAlive = FALSE
  /\ calls = <<>>
  /\ files = {}
  /\ err = "none"
  /\ sol = NoSol

\* the caller contracts an edge of the graph
CombineNodes ==
  /\ pc = "topo"
  /\ Len(calls) < MaxContr
  /\ \E a \in tg.nds : \E b \in tg.nds \ {a} :
       /\ lineGetEdg(tg, a, b) # 0
       /\ \E r \in {combineNodes(tg, a, b)} :
            /\ tg' = r.g
            /\ pc' = IF r.res = "ok" THEN "topo" ELSE "aborted"
       /\ calls' = Append(calls, <<"combineNodes", a, b>>)
  /\ UNCHANGED <<sol, inst, gg, drawing, lp, asg, status, stats, lpAlive, files, err>>

NextTopo == CombineNodes

SpecTopo == InitTopo /\ [][NextTopo]_vars

\* ------------------------------------------------------------------------
\* OctiHananGraph::ang on every pair of port indices
\* ------------------------------------------------------------------------
\* a caller is about to call ang(i, j)
InitAng ==
  /\ \E i \in 0..(maxDeg - 1) : \E j \in 0..(maxDeg - 1) :
       calls = << <<"ang", i, j>> >>
  /\ pc = "ang"
  /\ inst = NoConf
  /\ gg = resetGrid(Grid(inst))
  /\ drawing = crumble(inst)
  /\ lp = NoLp
  /\ asg = <<>>
  /\ status = "none"
  /\ stats = NoStats
  /\ lpAlive = FALSE
  /\ files = {}
  /\ err = "none"
  /\ sol = NoSol
  /\ tg = NoGraph

\* lines 64-75: the call returns ang, or stops at the assertion of line 72
Ang ==
  /\ pc = "ang"
  /\ \E i \in {calls[1][2]} : \E j \in {calls[1][3]} :
       IF angDeg(i, j) = angFold(i, j)
       THEN asg' = <<ang(i, j)>> /\ pc' = "returned"
       ELSE asg' = <<>> /\ pc' = "aborted"
  /\ UNCHANGED <<tg, sol, inst, gg, drawing, lp, status, stats, lpAlive, calls, files, err>>

NextAng == Ang

SpecAng == InitAng /\ [][NextAng]_vars

\* ------------------------------------------------------------------------
\* properties of the assignments returned by solve
\* ------------------------------------------------------------------------
\* asg is an assignment that satisfies every row of lp
SolvedAsg == status \in {"OPTIM", "SUBOPTIM_TIMEOUT"}

sp(g, v) == VarVal(lp, asg, getStatPosVar(Snk(g), v))
edg(e, f) == VarVal(lp, asg, getEdgUseVar(e, f))
dirOf(v, f) == VarVal(lp, asg, dirVar(v, f))

CombNds == 1..Len(inst.pos)
CombEdgs == 1..Len(inst.edgs)

\* the pairs <<e, f>> of a grid edge e of E and a comb edge f using it
UsedOf(E) == {u \in E \X CombEdgs : edg(u[1], u[2]) = 1}

\* C1: in every satisfying assignment each comb node of positive degree has
\* exactly one sink g with sp(g, v) = 1, and g is nearer than maxGrDist cells
\* and has at least the degree of v
C1_OneCandidateStation ==
  SolvedAsg =>
    \A v \in CombNds : combDeg(inst, v) > 0 =>
      \E g \in gg.G.S :
        /\ sp(g, v) = 1
        /\ \A h \in gg.G.S \ {g} : sp(h, v) # 1
        /\ dist2(inst, v, g) < inst.maxGrDist * inst.maxGrDist
        /\ getDeg(gg.G, g) >= combDeg(inst, v)

\* a satisfying assignment hosts a comb node on another cell than its own
C1_Witness ==
  /\ SolvedAsg
  /\ \E v \in CombNds : \E g \in gg.G.S \ {inst.pos[v]} :
       combDeg(inst, v) > 0 /\ sp(g, v) = 1

\* C2: in every satisfying assignment every major grid edge is used, together
\* with its reverse edge, at most once over all comb edges
C2_MajorEdgeOnce ==
  SolvedAsg =>
    \A e \in Range(majorEdgs(gg.G)) : Cardinality(UsedOf({e, Rev(e)})) <= 1

\* a satisfying assignment uses a major edge
C2_Witness ==
  SolvedAsg /\ \E e \in Range(majorEdgs(gg.G)) : UsedOf({e}) # {}

\* the bend edges of sink cell g
BendsAt(g) ==
  {<<Port(g, p), Port(g, q)>> : p \in 0..(maxDeg - 1), q \in 0..(maxDeg - 1)}

\* C3: in every satisfying assignment the comb nodes hosted at a sink plus
\* the used bend edges at that sink are at most one
C3_StationOrPassThrough ==
  SolvedAsg =>
    \A g \in gg.G.S :
      Cardinality({v \in CombNds : sp(g, v) = 1})
      + Cardinality(UsedOf(BendsAt(g))) <= 1

\* a satisfying assignment passes through a sink on a bend edge, and another
\* sink hosts a station
C3_Witness ==
  /\ SolvedAsg
  /\ \E g \in gg.G.S : UsedOf(BendsAt(g)) # {}
  /\ \E g \in gg.G.S : \E v \in CombNds : sp(g, v) = 1

\* the slots of comb node v at which the direction does not grow by one or more
DecreasingSlots(v) ==
  {i \in 1..Len(inst.ord[v]) :
     dirOf(v, inst.ord[v][i])
     - dirOf(v, inst.ord[v][IF i = 1 THEN Len(inst.ord[v]) ELSE i - 1]) < 1}

\* C4: in every satisfying assignment, for a comb node of degree 3 or more the
\* directions of its edges grow by at least one from every edge of the
\* circular order to the next, except at exactly one slot where they decrease;
\* the directions are pairwise distinct
C4_CircularOrder ==
  SolvedAsg =>
    \A v \in CombNds : combDeg(inst, v) >= 3 =>
      /\ Cardinality(DecreasingSlots(v)) = 1
      /\ \A i \in DecreasingSlots(v) :
           dirOf(v, inst.ord[v][i])
           < dirOf(v, inst.ord[v][IF i = 1 THEN Len(inst.ord[v]) ELSE i - 1])
      /\ \A f \in Range(inst.ord[v]) : \A h \in Range(inst.ord[v]) :
           f # h => dirOf(v, f) # dirOf(v, h)

\* a satisfying assignment for an instance with a comb node of degree 3
C4_Witness ==
  SolvedAsg /\ \E v \in CombNds : combDeg(inst, v) >= 3

\* C5: in every satisfying assignment at most one of the four directed edges
\* of every registered crossing is used, over all comb edges
C5_NoCrossing ==
  SolvedAsg =>
    \A r \in Range(crossRegs(gg.G)) :
      Cardinality(UsedOf({r.ea, r.eb, r.fa, r.fb})) <= 1

\* a satisfying assignment uses an edge of a registered crossing that is not
\* the edge leaving a sink in direction 3
C5_Witness ==
  /\ SolvedAsg
  /\ \E r \in Range(crossRegs(gg.G)) : \E e \in {r.ea, r.eb, r.fa, r.fb} :
       UsedOf({e}) # {} /\ e[1][3] # 3

\* the walk of the decoder for comb edge f over the edges selected by asg
WalkOf(f) ==
  walk(gg.G, gridEdgs(lp, asg, gg.G, f),
       gridNds(lp, asg, gg.G, getFrom(inst, f)),
       gridNds(lp, asg, gg.G, getTo(inst, f)), 0, <<>>)

\* C6: in every satisfying assignment the grid edges selected for a comb edge
\* form one simple path between the sinks of its two comb nodes: the walk of
\* the decoder from the source sink reaches the target sink and has then
\* consumed every selected edge, each once
C6_OneSimplePath ==
  SolvedAsg =>
    \A f \in CombEdgs :
      \E w \in {WalkOf(f)} :
        /\ w.res = "ok"
        /\ Range(w.edges) = gridEdgs(lp, asg, gg.G, f)
        /\ Len(w.edges) = Cardinality(Range(w.edges))

\* the decoder has aborted on an assignment that satisfies every row and
\* selects the direct path together with the triangle
C6_DetachedCycle ==
  /\ pc = "aborted"
  /\ Satisfies(lp, asg)
  /\ gridEdgs(lp, asg, gg.G, 1) = TriPath \cup TriCycle

\* ------------------------------------------------------------------------
\* properties of optimize
\* ------------------------------------------------------------------------
Called(c) == c \in Range(calls)

\* C7: after solve returned INF optimize deletes the solver handle and throws
\* the error with its hint; it never decodes, never draws a path and never
\* returns statistics
C7_InfThrows ==
  status = "INF" =>
    /\ pc \in {"solved", "thrown"}
    /\ ~Called("extractSolution")
    /\ drawing = crumble(inst)
    /\ gg.res = {}
    /\ pc = "thrown" => ~lpAlive /\ err = InfHint

\* optimize has thrown after the solver ran into its time limit
C7_Witness == pc = "thrown" /\ status = "INF" /\ Called("setTimeLim")

\* comb node v has positive degree and no sink that is near enough and has
\* degree enough
NoCandidate(v) ==
  /\ combDeg(inst, v) > 0
  /\ \A g \in gg.G.S :
       \/ dist2(inst, v, g) >= inst.maxGrDist * inst.maxGrDist
       \/ getDeg(gg.G, g) < combDeg(inst, v)

\* C8: if a comb node of positive degree has no candidate sink, the built
\* problem holds its oneass row without columns and with right-hand side 1,
\* solve finds no satisfying assignment, and optimize without noSolve does
\* not return
C8_ZeroCandidatesInfeasible ==
  \A v \in CombNds : NoCandidate(v) =>
    /\ lpAlive =>
         \E r \in Range(lp.rows) :
           r.name = <<"oneass", v>> /\ r.coefs = <<>> /\ r.rhs = 1 /\ r.sense = "FIX"
    /\ ~SolvedAsg
    /\ ~inst.noSolve => pc \notin {"decoded", "returned", "aborted", "hung"}

\* optimize has thrown, without a time limit, for an instance that has a comb
\* node without candidates because of the degrees
C8_Witness ==
  /\ pc = "thrown"
  /\ ~Called("setTimeLim")
  /\ \E v \in CombNds :
       /\ NoCandidate(v)
       /\ \E g \in gg.G.S : dist2(inst, v, g) < inst.maxGrDist * inst.maxGrDist

\* C9: with noSolve neither solve nor the decoder is called, the drawing is
\* empty on return, and cols and rows are those of the problem built for the
\* same call without noSolve
C9_NoSolve ==
  /\ inst.noSolve => ~Called("solve") /\ ~Called("extractSolution")
  /\ inst.noSolve /\ pc = "returned" => drawing = crumble(inst) /\ gg.res = {}
  /\ pc = "returned" =>
       \E P \in {createProblem([inst EXCEPT !.noSolve = FALSE], gg.G)} :
         stats.cols = Len(P.cols) /\ stats.rows = Len(P.rows)

\* optimize has returned with noSolve for a call that held a heuristic drawing
C9_Witness ==
  /\ pc = "returned" /\ inst.noSolve /\ inst.heur
  /\ stats.cols > 0 /\ stats.rows > 0

\* "setTimeLim" is in calls, before "solve"
TimeLimBeforeSolve ==
  \E i \in 1..Len(calls) : \E j \in (i + 1)..Len(calls) :
    calls[i] = "setTimeLim" /\ calls[j] = "solve"

\* C10: the returned optimal flag is true exactly if solve returned OPTIM; a
\* SUBOPTIM_TIMEOUT solution is decoded and returned with optimal false; the
\* time limit is set before solve exactly if timeLim >= 0
C10_OptimalFlag ==
  /\ pc = "returned" => (stats.optimal <=> status = "OPTIM")
  /\ pc = "returned" /\ status = "SUBOPTIM_TIMEOUT" =>
       /\ Called("extractSolution")
       /\ \A f \in CombEdgs : drawing[f] # <<>>
       /\ ~stats.optimal
  /\ Called("solve") => (TimeLimBeforeSolve <=> inst.timeLim >= 0)
  /\ Called("setTimeLim") => inst.timeLim >= 0

\* optimize has returned a decoded solution that is not proven optimal
C10_Witness ==
  /\ pc = "returned" /\ status = "SUBOPTIM_TIMEOUT"
  /\ \E f \in CombEdgs : drawing[f] # <<>>

\* C11: the MPS file written for an input is the same at every placement of
\* its comb nodes and comb edges in memory
C11_Deterministic ==
  pc = "branch" =>
    \A h \in Heaps(inst) :
      <<"mps", inst.path, mpsBytes(createProblem(inst, gg.G), h)>> \in files

\* an MPS file was written whose names hold the addresses of comb nodes
C11_AddressInName ==
  /\ pc = "branch"
  /\ \E fl \in files : fl[1] = "mps" /\ \E k \in 1..Len(fl[3].cols) :
       fl[3].cols[k].name[1] = "sp" /\ fl[3].cols[k].name[3] = inst.addr.nd[1]
       /\ inst.addr.nd[1] # 1

\* the sequence st is path cut before its last ".", or path when it has none
IsStemOf(st, path) ==
  \/ st = path /\ \A k \in 1..Len(path) : path[k] # "."
  \/ \E k \in 1..Len(path) :
       /\ path[k] = "." /\ \A j \in (k + 1)..Len(path) : path[j] # "."
       /\ st = SubSeq(path, 1, k - 1)

\* optimize is past the writing of the files
FilesDone == pc \notin {"entry", "build", "write"}

\* C12 as stated: with a path, the files path.mps and path.mst are written
\* before solving; without a path no file is written
C12_StemFiles ==
  /\ FilesDone /\ inst.path # <<>> =>
       /\ <<"mps", inst.path \o <<".", "m", "p", "s">> >> \in files
       /\ <<"mst", inst.path \o <<".", "m", "s", "t">> >> \in files
  /\ inst.path = <<>> => files = {}

\* C12, amended: with a path, the model is written to the file path itself
\* and the warm start to stem.mst, where stem is path cut before its last
\* "."; both are written before solve is called and nothing else is written;
\* without a path no file is written
C12_PathFiles ==
  /\ FilesDone /\ inst.path # <<>> =>
       \E st \in {SubSeq(inst.path, 1, k) : k \in 0..Len(inst.path)} :
         /\ IsStemOf(st, inst.path)
         /\ files = {<<"mps", inst.path>>, <<"mst", st \o <<".", "m", "s", "t">> >>}
  /\ ~FilesDone \/ inst.path = <<>> => files = {}
  /\ Called("solve") => FilesDone

\* optimize has solved and returned after writing the files of a path that
\* has an extension
C12_Witness ==
  /\ pc = "returned" /\ Called("solve")
  /\ \E k \in 1..Len(inst.path) : inst.path[k] = "."
  /\ files # {}

\* problem P with every column named by the warm start s fixed to its value
pinned(P, s) ==
  [P EXCEPT !.cols = [k \in 1..Len(P.cols) |->
     IF P.nm[k] \in DOMAIN s
     THEN [P.cols[k] EXCEPT !.lo = s[P.nm[k]], !.hi = s[P.nm[k]]]
     ELSE P.cols[k]]]

\* the heuristic run settled every comb node with edges on a sink within the
\* cutoff and drew every comb edge
ValidHeur ==
  /\ inst.heur
  /\ \A nd \in 1..Len(inst.pos) :
       combDeg(inst, nd) > 0 =>
         dist2(inst, nd, inst.pos[nd]) < inst.maxGrDist * inst.maxGrDist
  /\ \A f \in 1..Len(inst.edgs) : heurDrawing(inst, gg.G)[f] # <<>>

\* C13: the warm start read from a valid heuristic drawing can be completed
\* to an assignment that satisfies every row of the built problem
C13_WarmStartCompletable ==
  pc = "write" /\ ValidHeur => Feasible(pinned(lp, sol))

\* a problem was built after a valid heuristic run whose warm start fixes a
\* station column to 1, a sink edge column of another candidate to 0 and
\* leaves a bend edge column open
C13_Witness ==
  /\ pc = "write" /\ ValidHeur
  /\ \E k \in 1..Len(lp.cols) :
       lp.nm[k][1] = "sp" /\ lp.nm[k] \in DOMAIN sol /\ sol[lp.nm[k]] = 1
  /\ \E k \in 1..Len(lp.cols) :
       /\ lp.nm[k][1] = "edg" /\ isSinkEdg(<<lp.nm[k][2], lp.nm[k][3]>>)
       /\ lp.nm[k] \in DOMAIN sol /\ sol[lp.nm[k]] = 0
  /\ \E k \in 1..Len(lp.cols) :
       /\ lp.nm[k][1] = "edg" /\ isBend(<<lp.nm[k][2], lp.nm[k][3]>>)
       /\ lp.nm[k] \notin DOMAIN sol

\* the last call of the sequence
LastCall == calls[Len(calls)]

\* the step appends a call of op to the sequence
Calls(op) == Len(calls') = Len(calls) + 1 /\ calls'[Len(calls')][1] = op

\* the major edge from sink cell a to sink cell b
MajorEdg(a, b) ==
  CHOOSE e \in {<<Port(a, d), Port(b, (d + 4) % 8)>> : d \in 0..7} :
    neigh(gg.G, a, e[1][3]) = b

\* the directed edges of the other diagonal in the crossings registered for
\* the diagonal between sink cells a and b
Crossing(a, b) ==
  UNION {IF MajorEdg(a, b) \in {r.ea, r.eb} THEN {r.fa, r.fb}
         ELSE IF MajorEdg(a, b) \in {r.fa, r.fb} THEN {r.ea, r.eb}
         ELSE {} : r \in Range(crossRegs(gg.G))}

\* sink cells a and b lie on a common diagonal
Diagonal(a, b) == a[1] # b[1] /\ a[2] # b[2]

\* the effect of settleEdg(a, b, e) on the grid state
SettleEffect(a, b, e) ==
  IF a = b THEN gg' = gg
  ELSE /\ gg'.res = gg.res \cup {<<MajorEdg(a, b), e>>, <<MajorEdg(b, a), e>>}
       /\ gg'.turns = gg.turns \cup {a, b}
       /\ gg'.blocked = gg.blocked \cup (IF Diagonal(a, b) THEN Crossing(a, b) ELSE {})
       /\ gg'.sta = gg.sta /\ gg'.open = gg.open /\ gg'.G = gg.G

\* C14: settleEdg(a, b, e) with a # b reserves both directed major edges
\* between a and b for e, closes the turn edges at a and at b and, on a
\* diagonal, blocks both directed edges of every crossing registered for the
\* edge; with a = b it changes nothing
C14_SettleEdg ==
  [][Calls("settleEdg") =>
       SettleEffect(calls'[Len(calls')][2], calls'[Len(calls')][3],
                    calls'[Len(calls')][4])]_vars

\* settleEdg was called on a diagonal of the reset grid and has blocked the
\* other diagonal
C14_Witness ==
  /\ Len(calls) = 1 /\ LastCall[1] = "settleEdg"
  /\ Diagonal(LastCall[2], LastCall[3])
  /\ gg.blocked # {} /\ gg.turns = {LastCall[2], LastCall[3]} \cup {Parent(s) : s \in gg.sta}

\* the calls were settleEdg(a, b, e) and then unSettleEdg(e, a, b), on sinks
\* a # b that hold no station
RoundTrip ==
  /\ Len(calls) = 2
  /\ calls[1][1] = "settleEdg" /\ calls[2][1] = "unSettleEdg"
  /\ calls[1][2] = calls[2][2] /\ calls[1][3] = calls[2][3] /\ calls[1][4] = calls[2][4]
  /\ calls[1][2] # calls[1][3]
  /\ Snk(calls[1][2]) \notin gg.sta /\ Snk(calls[1][3]) \notin gg.sta

\* the step reopens turns only at sinks without a reservation or station left
\* and unblocks only the crossings of an edge without a reservation left
OnlyWhenFree(a, b) ==
  /\ \A x \in gg.turns \ gg'.turns :
       /\ x \in {a, b} /\ Snk(x) \notin gg.sta
       /\ \A r \in gg'.res : x \notin {Parent(r[1][1]), Parent(r[1][2])}
  /\ gg.blocked # gg'.blocked =>
       /\ gg.blocked \ gg'.blocked \subseteq Crossing(a, b)
       /\ \A r \in gg'.res : r[1] # MajorEdg(a, b)

\* C15: on the reset grid, settleEdg(a, b, e) followed by unSettleEdg(e, a, b)
\* on sinks without a station restores reservations, turns and blocked flags;
\* unSettleEdg reopens turns only at an endpoint without a remaining
\* reservation and unblocks crossings only when the edge is free
C15_UnSettleInverse ==
  /\ [](RoundTrip =>
          gg = [resetGrid(gg.G) EXCEPT !.sta = gg.sta,
                                       !.turns = {Parent(s) : s \in gg.sta}])
  /\ [][Calls("unSettleEdg") =>
          OnlyWhenFree(calls'[Len(calls')][2], calls'[Len(calls')][3])]_vars

\* a diagonal was settled and unsettled again on the reset grid
C15_Witness == RoundTrip /\ Diagonal(calls[1][2], calls[1][3])

\* C16: every major edge has its reverse edge, from the opposite port, and
\* after every sequence of settleEdg and unSettleEdg calls an edge and its
\* reverse carry the same reservations
C16_DirectedPairsInSync ==
  pc = "grid" =>
    \A a \in gg.G.S : \A d \in 0..7 :
      \A b \in {neigh(gg.G, a, d)} :
        b # NoNd =>
          /\ neigh(gg.G, b, (d + 4) % 8) = a
          /\ resOf(gg, <<Port(a, d), Port(b, (d + 4) % 8)>>)
               = resOf(gg, <<Port(b, (d + 4) % 8), Port(a, d)>>)

\* unSettleEdg has removed one of two reservations of a major edge: the edge
\* and its reverse still carry the other one
C16_Witness ==
  /\ pc = "grid" /\ calls # <<>> /\ LastCall[1] = "unSettleEdg"
  /\ LastCall[2] # LastCall[3]
  /\ resOf(gg, MajorEdg(LastCall[2], LastCall[3])) # {}

\* the diagonal major edges of the grid as pairs of sink cells: the xy family
\* runs in direction 1, the yx family in direction 3
xyEdgs(G) == {<<a, neigh(G, a, 1)>> : a \in {s \in G.S : neigh(G, s, 1) # NoNd}}
yxEdgs(G) == {<<c, neigh(G, c, 3)>> : c \in {s \in G.S : neigh(G, s, 3) # NoNd}}

\* the segments of xy edge e and yx edge f cross between their end nodes
SegCross(e, f) ==
  LET t2 == f[1][1] + f[1][2] - e[1][1] - e[1][2]
      s2 == e[1][1] - e[1][2] - f[1][1] + f[1][2]
  IN /\ 0 < t2 /\ t2 < 2 * (e[2][1] - e[1][1])
     /\ 0 < s2 /\ s2 < 2 * (f[2][1] - f[1][1])

\* the crossing of e and f is in the edge-pair table in both directions
Registered(G, e, f) ==
  LET ea == getNEdg(G, e[1], e[2])
      fa == getNEdg(G, f[1], f[2])
  IN /\ <<fa, Rev(fa)>> \in Range(edgePairs(G, ea))
     /\ <<fa, Rev(fa)>> \in Range(edgePairs(G, Rev(ea)))
     /\ <<ea, Rev(ea)>> \in Range(edgePairs(G, fa))
     /\ <<ea, Rev(ea)>> \in Range(edgePairs(G, Rev(fa)))

\* C17: after init every two diagonal major edges of different families
\* whose segments cross between grid nodes are registered as a crossing pair
\* in both directions, whatever number of cells they span
C17_CrossingsRegistered ==
  pc = "hanan" =>
    \A e \in xyEdgs(gg.G) : \A f \in yxEdgs(gg.G) :
      SegCross(e, f) => Registered(gg.G, e, f)

\* a diagonal edge spanning two cells is crossed in its second cell by an
\* edge of the other family and the crossing is not registered, while a
\* crossing in the first cell of such an edge is
C17_UnregisteredCrossing ==
  /\ pc = "hanan"
  /\ \E e \in xyEdgs(gg.G) : \E f \in yxEdgs(gg.G) :
       /\ e[2][1] - e[1][1] >= 2
       /\ SegCross(e, f) /\ ~Registered(gg.G, e, f)
  /\ \E e \in xyEdgs(gg.G) : \E f \in yxEdgs(gg.G) :
       SegCross(e, f) /\ Registered(gg.G, e, f)

\* C18: after init, in every sink, also on the border of the grid, both
\* directed bend edges between every two distinct ports exist and cost the
\* bend penalty of ang(i, j)
C18_BendEdgCosts ==
  pc = "hanan" =>
    \A c \in gg.G.S : \A i \in Range(Ports(gg.G, c)) :
      \A j \in Range(Ports(gg.G, c)) \ {i} :
        /\ <<Port(c, i), Port(c, j)>> \in DOMAIN bendEdgCosts(gg.G, c)
        /\ bendEdgCosts(gg.G, c)[<<Port(c, i), Port(c, j)>>] = getBendPen(i, j)

\* a sink of the bottom row keeps its ports 0 (up) and 2 (right) and the
\* bend edges between them cost INF, while the bend edges between its ports
\* 2 and 6 cost the penalty of a straight pass
C18_BorderBendInf ==
  /\ pc = "hanan"
  /\ \E c \in gg.G.S :
       /\ c[2] = 0
       /\ {0, 2, 6} \subseteq Range(Ports(gg.G, c))
       /\ bendEdgCosts(gg.G, c)[<<Port(c, 0), Port(c, 2)>>] = INF
       /\ bendEdgCosts(gg.G, c)[<<Port(c, 2), Port(c, 0)>>] = INF
       /\ bendEdgCosts(gg.G, c)[<<Port(c, 2), Port(c, 6)>>] = getBendPen(2, 6)

\* C19: for every selection of grid edges and of source and target sinks the
\* walks of extractSolution end: at the target sink with exactly the selected
\* edges consumed, or in a failed assertion; never in a loop without end
C19_WalkTerminates ==
  Called("extractSolution") => pc \in {"decoded", "aborted", "returned"}

\* the stations sit on two different sinks, no grid edge is selected for
\* the comb edge between them, and the walk never leaves the source sink
C19_WalkHangs ==
  /\ pc = "hung"
  /\ gridNds(lp, asg, gg.G, 1) # NoNd /\ gridNds(lp, asg, gg.G, 2) # NoNd
  /\ gridNds(lp, asg, gg.G, 1) # gridNds(lp, asg, gg.G, 2)
  /\ gridEdgs(lp, asg, gg.G, 1) = {}
  /\ WalkOf(1).res = "hang"

\* the positions of the edges of line graph g between the nodes u and v
EdgsBetween(g, u, v) ==
  {k \in 1..Len(g.edgs) : {g.edgs[k].fr, g.edgs[k].to} = {u, v}}

\* the nodes joined to node a by an edge of line graph g
Nbrs(g, a) ==
  {getOtherNd(e, a) : e \in {f \in Range(g.edgs) : a \in {f.fr, f.to}}}

\* line graph g has no self-loop and no two edges between the same nodes
Simple(g) ==
  \A k \in 1..Len(g.edgs) :
    /\ g.edgs[k].fr # g.edgs[k].to
    /\ EdgsBetween(g, g.edgs[k].fr, g.edgs[k].to) = {k}

\* the effect of combineNodes(a, b) on the line graph
ContractEffect(a, b) ==
  /\ pc' = "topo"
  /\ tg'.nds = tg.nds \ {a}
  /\ b \in tg'.nds
  /\ \A e \in Range(tg'.edgs) : a \notin {e.fr, e.to}
  /\ \A x \in Nbrs(tg, a) \ {b} :
       /\ Cardinality(EdgsBetween(tg', b, x)) = 1
       /\ \A k \in EdgsBetween(tg, a, x) : \A j \in EdgsBetween(tg', b, x) :
            lineNames(tg.edgs[k]) \subseteq lineNames(tg'.edgs[j])
  /\ Simple(tg')

\* C20: combineNodes(a, b) on a line graph without parallel edges and
\* self-loops in which a and b are joined ends without a failed assertion,
\* removes a with its edges, keeps b, joins every other former neighbour x of
\* a to b by exactly one edge that carries every line of the edge a-x, and
\* leaves a graph without parallel edges and self-loops, so that contractions
\* can follow each other
C20_CombineNodes ==
  [][Calls("combineNodes") =>
       (Simple(tg) =>
          ContractEffect(calls'[Len(calls')][2], calls'[Len(calls')][3]))]_vars

\* the contractions a-d, e-c, d-b, b-c of the test were made on its first
\* graph: c is left with the edges to x and y, each with both lines
C20_Witness ==
  /\ pc = "topo"
  /\ calls = << <<"combineNodes", 1, 4>>, <<"combineNodes", 5, 3>>,
                <<"combineNodes", 4, 2>>, <<"combineNodes", 2, 3>> >>
  /\ tg.nds = {3, 6, 7}
  /\ Len(tg.edgs) = 2
  /\ \A e \in Range(tg.edgs) : lineNames(e) = {1, 2}

\* the number of edges of the sequence es that comb edge f uses
UsedCnt(es, f) == Cardinality({e \in Range(es) : edg(e, f) = 1})

\* C21: in every satisfying assignment, for each comb edge f the sink hosting
\* the from node of f has exactly one used outgoing sink edge for f and no
\* used incoming one, the sink hosting its to node has exactly one used
\* incoming sink edge and no outgoing one, no other sink has a used sink edge
\* for f, and at every port node as many edges used for f enter as leave
C21_FlowConservation ==
  SolvedAsg =>
    \A f \in CombEdgs :
      /\ \A g \in gg.G.S :
           \E io \in {<<UsedCnt(getAdjListIn(gg.G, Snk(g)), f),
                        UsedCnt(getAdjListOut(gg.G, Snk(g)), f)>>} :
             IF sp(g, getFrom(inst, f)) = 1 THEN io = <<0, 1>>
             ELSE IF sp(g, getTo(inst, f)) = 1 THEN io = <<1, 0>>
             ELSE io = <<0, 0>>
      /\ \A n \in Range(getNds(gg.G)) :
           ~isSink(n) => UsedCnt(getAdjListIn(gg.G, n), f)
                         = UsedCnt(getAdjListOut(gg.G, n), f)

\* a satisfying assignment in which a comb edge passes through a sink that
\* hosts neither of its end nodes, on a bend edge
C21_Witness ==
  /\ SolvedAsg
  /\ \E f \in CombEdgs : \E g \in gg.G.S :
       /\ sp(g, getFrom(inst, f)) # 1
       /\ sp(g, getTo(inst, f)) # 1
       /\ \E b \in BendsAt(g) : edg(b, f) = 1

\* the model is built
Built == lp # NoLp

\* the comb node that column or row name nmv is written for, 0 when it is
\* written for none
NodeOf(nmv) ==
  IF nmv[1] = "sp" THEN nmv[3]
  ELSE IF nmv[1] \in {"d", "vuln", "oneass", "dc", "vc", "oc"} THEN nmv[2]
  ELSE 0

\* the names of the columns and rows of lp
AllNames == Range(lp.nm) \cup {lp.rows[r].name : r \in 1..Len(lp.rows)}

\* the pairs of a comb node of degree 2 or more and an incident comb edge
DirPairs ==
  {vf \in CombNds \X CombEdgs :
     /\ combDeg(inst, vf[1]) >= 2
     /\ vf[1] \in {getFrom(inst, vf[2]), getTo(inst, vf[2])}}

\* the ports p of the sink hosting v whose sink edge leaving the sink (v is
\* the from node of f) or entering it (v is the to node) is used by f
UsedPorts(v, f) ==
  {p \in 0..(maxDeg - 1) :
     \E g \in gg.G.S :
       /\ sp(g, v) = 1
       /\ edg(IF getFrom(inst, f) = v THEN <<Snk(g), Port(g, p)>>
              ELSE <<Port(g, p), Snk(g)>>, f) = 1}

\* C22: the columns d(v, f) and the rows dc(v, f) are written exactly for the
\* comb nodes v of degree 2 or more and their incident comb edges f, no column
\* or row is written for a comb node without edges, and in every satisfying
\* assignment d(v, f) is the index of the port of the sink hosting v through
\* which f leaves or enters that sink
C22_Directions ==
  /\ Built =>
       /\ {n \in Range(lp.nm) : n[1] = "d"}
          = {dirVar(vf[1], vf[2]) : vf \in DirPairs}
       /\ {lp.rows[r].name : r \in {k \in 1..Len(lp.rows) : lp.rows[k].name[1] = "dc"}}
          = {<<"dc", vf[1], vf[2]>> : vf \in DirPairs}
       /\ \A n \in AllNames : NodeOf(n) # 0 => combDeg(inst, NodeOf(n)) > 0
  /\ SolvedAsg =>
       \A vf \in DirPairs : UsedPorts(vf[1], vf[2]) = {dirOf(vf[1], vf[2])}

\* a satisfying assignment in which a comb node of degree 2 or more is entered
\* by one comb edge through a port other than port 0 and left by another
C22_Witness ==
  /\ SolvedAsg
  /\ \E vf \in DirPairs : \E vh \in DirPairs :
       /\ vf[1] = vh[1]
       /\ getTo(inst, vf[2]) = vf[1]
       /\ getFrom(inst, vh[2]) = vh[1]
       /\ dirOf(vf[1], vf[2]) > 0

\* the steps k in 1..7 whose angle bucket of the pair (a, b) has value 1
Buckets(a, b) ==
  {k \in 1..(maxDeg - 1) :
     VarVal(lp, asg, bucketVar(k - 1, Len(getCosts), a, b)) = 1}

\* d(v, a) - d(v, b) modulo 8
AngleOf(v, a, b) == (dirOf(v, a) - dirOf(v, b) + maxDeg) % maxDeg

\* C23: in every satisfying assignment, for every pair (a, b) of comb edges
\* at a comb node v that share a line, negdist(a, b) is 1 exactly when
\* d(v, a) < d(v, b), at most one angle bucket of the pair is 1, and the
\* selected bucket is the one of step (d(v, a) - d(v, b)) mod 8, none when
\* that value is 0
C23_AngleBuckets ==
  SolvedAsg =>
    \A pr \in Range(anglePairs(inst)) :
      /\ (VarVal(lp, asg, negVar(pr[2], pr[3])) = 1)
         <=> (dirOf(pr[1], pr[2]) < dirOf(pr[1], pr[3]))
      /\ Cardinality(Buckets(pr[2], pr[3])) <= 1
      /\ Buckets(pr[2], pr[3]) = {AngleOf(pr[1], pr[2], pr[3])} \ {0}

\* a satisfying assignment in which the angle of a pair has wrapped past 0 and
\* falls into one of the buckets of a step above 4
C23_Witness ==
  /\ SolvedAsg
  /\ \E pr \in Range(anglePairs(inst)) :
       /\ VarVal(lp, asg, negVar(pr[2], pr[3])) = 1
       /\ \E k \in Buckets(pr[2], pr[3]) : k > 4

\* the objective coefficient of the bucket of step k of the pair (a, b)
BucketObj(k, a, b) ==
  lp.cols[getVarByName(lp.nm, bucketVar(k - 1, Len(getCosts), a, b))].obj

ReadsStart == pc = "entry" /\ pc' = "build"

\* sink cell g is within the cutoff of comb node v
Near(v, g) == dist2(inst, v, g) < inst.maxGrDist * inst.maxGrDist

\* the warm start read by the step sets the column of grid edge e and comb
\* edge f to x
StartSets(e, f, x) ==
  /\ getEdgUseVar(e, f) \in DOMAIN sol'
  /\ sol'[getEdgUseVar(e, f)] = x

\* the bend edges between the ports of sink cell g
PortBends(g) ==
  {<<Port(g, p), Port(g, q)>> : p \in Range(Ports(gg.G, g)),
                                q \in Range(Ports(gg.G, g))}
  \ {<<Port(g, p), Port(g, p)>> : p \in Range(Ports(gg.G, g))}

\* the sink edges of sink cell g, in both directions
SinkEdgs(g) ==
  UNION {{<<Snk(g), Port(g, p)>>, <<Port(g, p), Snk(g)>>} :
           p \in Range(Ports(gg.G, g))}

\* C25: the warm start sets to 0, for every comb node v with edges and every
\* comb edge, every bend edge column at the ports of the settled sink of v
\* when that sink is within the cutoff, and every sink edge column, in both
\* directions, of every other sink within the cutoff of v
C25_StarterZeros ==
  [][ReadsStart =>
       \A v \in CombNds : \A g \in gg.G.S :
         combDeg(inst, v) > 0 /\ Near(v, g) =>
           \A f \in CombEdgs :
             \A e \in IF Snk(g) = getSettled(inst, gg, v)
                      THEN PortBends(g) ELSE SinkEdgs(g) :
               StartSets(e, f, 0)]_vars

\* a warm start was read after a heuristic run that settled a comb node on a
\* sink where a comb edge entering the node has a bend edge the warm start
\* does not name
C25_BendNotZeroed ==
  /\ pc # "entry" /\ inst.heur
  /\ \E v \in CombNds : \E f \in CombEdgs :
       /\ getTo(inst, f) = v
       /\ Near(v, inst.pos[v])
       /\ \E e \in PortBends(inst.pos[v]) : getEdgUseVar(e, f) \notin DOMAIN sol

\* C26: the warm start sets to 1, for every comb edge f, the column of every
\* grid edge on the path of f in the heuristic drawing, although the loop
\* over the major edges wrote 0 for it before, and sets to 0 the column of
\* every major grid edge that is not on the path of f
C26_PathsWrittenLast ==
  [][ReadsStart =>
       \A f \in CombEdgs :
         /\ \A e \in Range(drawing[f]) : StartSets(e, f, 1)
         /\ \A e \in Range(majorEdgs(gg.G)) \ Range(drawing[f]) :
              StartSets(e, f, 0)]_vars

\* a warm start was read that sets a major grid edge to 1 for a comb edge and
\* the reverse edge to 0
C26_Witness ==
  /\ pc = "build"
  /\ \E n \in DOMAIN sol :
       /\ n[1] = "edg" /\ sol[n] = 1
       /\ getEdgUseVar(<<n[3], n[2]>>, n[4]) \in DOMAIN sol
       /\ sol[getEdgUseVar(<<n[3], n[2]>>, n[4])] = 0

\* the names of the rows of kind k written for grid node n
RowsOf(k, n) ==
  {lp.rows[r].name : r \in {i \in 1..Len(lp.rows) :
                              /\ lp.rows[i].name[1] = k
                              /\ lp.rows[i].name[2] = n}}

\* the grid nodes all of whose incident edges have a cost of SOFT_INF or more
InfNds == {n \in Range(getNds(gg.G)) : nonInfDeg(inst, gg.G, n) = 0}

\* C27 as claimed: a grid node all of whose incident edges cost SOFT_INF or
\* more has no row in the problem just built: no as row and, for a sink, no ss row
\* and no iu row
C27_NoRowsForInfNode ==
  pc = "write" =>
    \A n \in InfNds :
      /\ RowsOf("as", n) = {}
      /\ isSink(n) => RowsOf("ss", n) = {} /\ RowsOf("iu", n) = {}

\* C27 as amended: such a grid node has no as row in the problem just built; a sink
\* among them still has its row ss(n, f) for every comb edge f and its row
\* iu(n)
C27_NoAsRowForInfNode ==
  pc = "write" =>
    \A n \in InfNds :
      /\ RowsOf("as", n) = {}
      /\ isSink(n) => /\ RowsOf("ss", n) = {<<"ss", n, f>> : f \in CombEdgs}
                      /\ RowsOf("iu", n) = {<<"iu", n>>}

\* a problem with a comb edge is built on a grid with a sink that is no
\* candidate of any comb node, next to a grid node that has as rows
C27_Witness ==
  /\ pc = "write" /\ CombEdgs # {}
  /\ \E n \in InfNds : isSink(n)
  /\ \E n \in Range(getNds(gg.G)) : RowsOf("as", n) # {}

\* the step builds the problem (line 52 of optimize)
BuildStep == pc = "build" /\ pc' = "write"

\* the warm start is read from the grid and the drawing as the heuristic run
\* left them, and no problem is built yet
StartReadFirst ==
  ReadsStart => sol' = extractFeasibleSol(inst, gg, drawing) /\ lp' = NoLp

\* when the build starts the drawing is cleared, no grid edge is blocked or
\* reserved and no sink is settled
BuildOnResetGrid ==
  BuildStep => /\ drawing = crumble(inst)
               /\ gg.blocked = {} /\ gg.res = {} /\ gg.sta = {}

\* C28 as claimed: optimize reads the warm start from the heuristic drawing
\* and the settled grid before it resets the grid and clears the drawing, and
\* builds the problem afterwards; when the build starts every grid edge is
\* unblocked and open and the turns of every sink are closed
C28_TurnsClosedAtBuild ==
  [][/\ StartReadFirst
     /\ BuildOnResetGrid
     /\ BuildStep => gg.turns = gg.G.S]_vars

\* C28 as amended: the same, with the turns of every sink open and the sink
\* edges of every sink closed when the build starts
C28_ResetBeforeBuild ==
  [][/\ StartReadFirst
     /\ BuildOnResetGrid
     /\ BuildStep => gg.turns = {} /\ gg.open = {}]_vars

\* a problem was built after a heuristic run whose warm start settles a comb
\* node
C28_Witness ==
  /\ pc = "write" /\ inst.heur /\ Len(lp.cols) > 0
  /\ \E n \in DOMAIN sol : n[1] = "sp" /\ sol[n] = 1

\* a call of ang on two distinct port indices is over
AngDone == pc \in {"returned", "aborted"} /\ calls[1][1] = "ang" /\ calls[1][2] # calls[1][3]

\* the call returned what ang returns for the swapped indices, after its
\* assertion held
AngSymmetric == pc = "returned" /\ asg[1] = ang(calls[1][3], calls[1][2])

\* C29 as claimed: for distinct port indices i, j in 0..7, ang(i, j) is 0, 1
\* or 2, equals ang(j, i), and the assertion deg == ang holds, also when i < j
\* and the unsigned subtraction wraps around
C29_AngUpToTwo == AngDone => AngSymmetric /\ asg[1] \in {0, 1, 2}

\* C29 as amended: the same with ang(i, j) in 0..3: 3 for ports three or five
\* steps apart
C29_AngUpToThree ==
  AngDone =>
    /\ AngSymmetric
    /\ asg[1] \in {0, 1, 2, 3}
    /\ (asg[1] = 3) <=> (((calls[1][2] - calls[1][3]) + maxDeg) % maxDeg \in {3, 5})

\* ang returned 3 for i < j, where i - j wraps around
C29_Witness ==
  AngDone /\ pc = "returned" /\ calls[1][2] < calls[1][3] /\ asg[1] = 3

\* the directed diagonal edges that carry a reservation, as pairs of sink cells
ResDiagonals ==
  {p \in {<<Parent(r[1][1]), Parent(r[1][2])>> : r \in gg.res} : Diagonal(p[1], p[2])}

\* C30: after any sequence of settleEdg and unSettleEdg calls every diagonal
\* major edge registered as crossing a reserved diagonal edge is blocked, also
\* after one of two reserved diagonals it crosses is un-settled
C30_CrossingsBlocked ==
  pc = "grid" => \A p \in ResDiagonals : Crossing(p[1], p[2]) \subseteq gg.blocked

\* two diagonals with the same registered crossing edge were settled and one
\* of them un-settled: the crossing edge is unblocked while the other one is
\* still reserved
C30_UnblockedCrossing ==
  /\ pc = "grid" /\ Len(calls) = 3
  /\ calls[1][1] = "settleEdg" /\ calls[2][1] = "settleEdg"
  /\ LastCall[1] = "unSettleEdg" /\ LastCall[2] = calls[1][2] /\ LastCall[3] = calls[1][3]
  /\ calls[2][2] # calls[1][2]
  /\ Diagonal(calls[1][2], calls[1][3]) /\ Diagonal(calls[2][2], calls[2][3])
  /\ Crossing(calls[1][2], calls[1][3]) = Crossing(calls[2][2], calls[2][3])
  /\ <<calls[2][2], calls[2][3]>> \in ResDiagonals
  /\ Crossing(calls[2][2], calls[2][3]) \cap gg.blocked = {}

====
